---- MODULE Spec2Model ----
(***************************************************************************)
(* A model of the hivemind agent of TogetherCrew/agents-workflow:          *)
(*   tasks/agent.py                       run_hivemind_agent_activity      *)
(*   tasks/hivemind/agent.py              AgenticHivemindFlow              *)
(*   tasks/hivemind/classify_question.py  ClassifyQuestion                 *)
(*   tasks/hivemind/query_data_sources.py QueryDataSources, make_rag_tool  *)
(*   tasks/mongo_persistence.py           MongoPersistence                 *)
(*   tasks/redis_memory.py                RedisMemory                      *)
(*                                                                         *)
(* A text is a sequence of tokens (words).  Python values that may be None *)
(* or of several types are records [type, val].                            *)
(***************************************************************************)
EXTENDS Integers, Sequences, FiniteSets, TLC

(***************************************************************************)
(* Bounds of the model.                                                    *)
(***************************************************************************)
\* how many times the document store may change availability in one run
MaxStoreFlips == 1
\* the largest max_retry_count a flow is constructed with in FlowSpec
MaxRetryBound == 3
\* cap of the retry_count counter (the guards of the generation handlers)
MaxPasses == 4
\* how many documents a client of MongoPersistence creates, and how many calls it makes
MaxDocs == 2
MaxCalls == 3
\* the number of hexadecimal digits of an identifier's text
IdLen == 1
\* a RedisMemory used on its own: the calls made on it, and how long it is watched,
\* in steps of TickMinutes minutes
MaxOps == 3
MaxTicks == 5
TickMinutes == 5
\* how many attempts of the activity a run of the hosting workflow is followed for
MaxAttemptsRun == 4

(***************************************************************************)
(* Program constants.                                                      *)
(***************************************************************************)
\* AgenticHivemindFlow.__init__: max_retry_count: int = 3
DefaultMaxRetryCount == 3
\* ClassifyQuestion.__init__: rag_threshold: float = 0.5, in tenths
RagThresholdTenths == 5
\* QueryDataSources.query: retry_policy=RetryPolicy(maximum_attempts=3)
RetrievalMaximumAttempts == 3
\* RedisMemory.__init__: self.timeout = timedelta(minutes=15).total_seconds(), in minutes
TimeoutMinutes == 15
\* AgenticHivemindTemporalWorkflow.run: retry_policy=RetryPolicy(maximum_attempts=3)
MaximumAttempts == 3

(***************************************************************************)
(* Python values.                                                          *)
(***************************************************************************)
None == [type |-> "NoneType", val |-> <<>>]
Str(t) == [type |-> "str", val |-> t]
CrewOutput(t) == [type |-> "CrewOutput", val |-> t]
Dict(keys) == [type |-> "dict", val |-> keys]
\* isinstance(v, str), isinstance(v, CrewOutput)
IsStr(v) == v.type = "str"
IsCrewOutput(v) == v.type = "CrewOutput"
\* Python truthiness of an Optional[str]: None and "" are falsy
Truthy(v) == v.type # "NoneType" /\ v.val # <<>>

\* how a call ends: it raises an exception or returns a value
Raise(exc) == [kind |-> "raise", exc |-> exc, val |-> None]
Return(v) == [kind |-> "return", exc |-> "", val |-> v]

(***************************************************************************)
(* Texts.  str.lower() maps every token to its lower-case form.            *)
(***************************************************************************)
Lower(tok) ==
    CASE tok = "Encountered" -> "encountered"
      [] tok = "ERROR" -> "error"
      [] tok = "True" -> "true"
      [] tok = "False" -> "false"
      [] tok = "Yes" -> "yes"
      [] tok = "No" -> "no"
      [] OTHER -> tok

LowerText(t) == [i \in DOMAIN t |-> Lower(t[i])]

\* `phrase in text` for a phrase of whole words
Contains(t, p) ==
    \E i \in 0..(Len(t) - Len(p)) : SubSeq(t, i + 1, i + Len(p)) = p

\* the keywords a (lower-case) token holds as a substring
Substrings(tok) ==
    CASE tok = "true" -> {"true"}
      [] tok = "false" -> {"false"}
      [] tok = "yes" -> {"yes"}
      [] tok = "no" -> {"no"}
      [] tok = "unknown" -> {"no"}
      [] tok = "untrue" -> {"true"}
      [] OTHER -> {}

\* `kw in text` for a keyword without spaces
HasSubstring(t, kw) == \E i \in DOMAIN t : kw \in Substrings(t[i])

(***************************************************************************)
(* ClassifyQuestion: the three classifiers, as functions of the model's    *)
(* raw output.  A result is "True", "False", "None" or "raise".            *)
(***************************************************************************)
\* custom_labels.get(out[0]["label"]): an unknown label gives None
classify_message(label) ==
    CASE label = "LABEL_0" -> "False"
      [] label = "LABEL_1" -> "True"
      [] OTHER -> "None"

\* text.split(sep)[0]: the tokens before the first sep
SplitHead(t, sep) ==
    LET i == CHOOSE k \in DOMAIN t : t[k] = sep /\ \A j \in 1..(k - 1) : t[j] # sep
    IN  SubSeq(t, 1, i - 1)

\* text.split(sep)[1]: the tokens between the first sep and the next one
SplitSecond(t, sep) ==
    LET i == CHOOSE k \in DOMAIN t : t[k] = sep /\ \A j \in 1..(k - 1) : t[j] # sep
        later == {k \in DOMAIN t : k > i /\ t[k] = sep}
        e == IF later = {} THEN Len(t) + 1
             ELSE CHOOSE k \in later : \A j \in later : k <= j
    IN  SubSeq(t, i + 1, e - 1)

\* text.replace(tok, "")
Remove(t, tok) == SelectSeq(t, LAMBDA x : x # tok)

\* `text in ["true", "yes", "1"]` / `text in ["false", "no", "0"]` on a lowered text
ExactBool(t) ==
    IF Len(t) # 1 THEN "invalid"
    ELSE IF t[1] \in {"true", "yes", "1"} THEN "True"
    ELSE IF t[1] \in {"false", "no", "0"} THEN "False"
    ELSE "invalid"

\* the except branch of classify_question_lm: substring search in the whole response
QuestionFallback(response) ==
    LET low == LowerText(response) IN
    IF HasSubstring(low, "true") \/ HasSubstring(low, "yes") THEN "True"
    ELSE IF HasSubstring(low, "false") \/ HasSubstring(low, "no") THEN "False"
    ELSE "raise"

QResult(res, why) == [result |-> res, reasoning |-> why, score |-> 0]

classify_question_lm(response, enable_reasoning) ==
    IF enable_reasoning /\ Contains(response, <<"Reasoning:">>)
                         /\ Contains(response, <<"Result:">>)
    THEN LET reasoning_part == Remove(SplitHead(response, "Result:"), "Reasoning:")
             result_part == LowerText(SplitSecond(response, "Result:"))
         IN  IF ExactBool(result_part) # "invalid"
             THEN QResult(ExactBool(result_part), reasoning_part)
             ELSE QResult(QuestionFallback(response), <<>>)
    ELSE IF ExactBool(LowerText(response)) # "invalid"
         THEN QResult(ExactBool(LowerText(response)), <<>>)
         ELSE QResult("raise", <<>>)

\* re.match(r"^-?\d*\.?\d+$", text): the text is one decimal number
IsNumber(t) ==
    Len(t) = 1 /\ t[1] \in {"0", "0.3", "0.5", "0.7", "1", "1.5", "-0.2"}

\* float(text), in tenths
Float(tok) ==
    CASE tok = "0" -> 0
      [] tok = "0.3" -> 3
      [] tok = "0.5" -> 5
      [] tok = "0.7" -> 7
      [] tok = "1" -> 10
      [] tok = "1.5" -> 15
      [] tok = "-0.2" -> 0 - 2
      [] OTHER -> 0

MResult(res, why, sc) == [result |-> res, reasoning |-> why, score |-> sc]

\* score >= self.rag_threshold
\* (a faulty variant: a score equal to the threshold is rejected)
ScoreResultFlipped(score, threshold) == IF score > threshold THEN "True" ELSE "False"
ScoreResult(score, threshold) == IF score >= threshold THEN "True" ELSE "False"

\* one branch of classify_message_lm: parse a number, validate its range
ScoreOf(t, why, threshold) ==
    IF ~IsNumber(t) THEN MResult("raise", <<>>, 0)
    ELSE IF ~(0 <= Float(t[1]) /\ Float(t[1]) <= 10) THEN MResult("raise", <<>>, 0)
    ELSE MResult(ScoreResult(Float(t[1]), threshold), why, Float(t[1]))

classify_message_lm(response, enable_reasoning, threshold) ==
    IF enable_reasoning /\ Contains(response, <<"Reasoning:">>)
                         /\ Contains(response, <<"Score:">>)
    THEN LET reasoning_part == Remove(SplitHead(response, "Score:"), "Reasoning:")
             score_part == SplitSecond(response, "Score:")
             first == ScoreOf(score_part, reasoning_part, threshold)
         IN  IF first.result # "raise" THEN first
             \* except (IndexError, ValueError): parse the whole response instead
             ELSE ScoreOf(LowerText(response), <<>>, threshold)
    ELSE ScoreOf(LowerText(response), <<>>, threshold)

(***************************************************************************)
(* MongoPersistence: the operations on one stored document.                *)
(***************************************************************************)
\* bson.ObjectId and its text: IdLen hexadecimal digits (a digit is 0..15; any
\* other element stands for a character that is no hexadecimal digit)
RECURSIVE HexDigits(_, _)
HexDigits(n, len) ==
    IF len = 0 THEN <<>> ELSE Append(HexDigits(n \div 16, len - 1), n % 16)

RECURSIVE HexValue(_)
HexValue(t) ==
    IF t = <<>> THEN 0 ELSE 16 * HexValue(SubSeq(t, 1, Len(t) - 1)) + t[Len(t)]

\* str(result.inserted_id)
ObjectIdStr(oid) == Str(HexDigits(oid, IdLen))

\* ObjectId(workflow_id): InvalidId for a text that is not IdLen hexadecimal
\* digits, TypeError for a value that is no text
ObjectId(wid) ==
    IF wid.type # "str" THEN Raise("TypeError")
    ELSE IF Len(wid.val) = IdLen /\ \A i \in DOMAIN wid.val : wid.val[i] \in 0..15
         THEN Return(HexValue(wid.val))
    ELSE Raise("InvalidId")

\* the workflow_state document of create_workflow_state; `now` is the clock's reading
\* (a faulty variant: the skip flag is stored as its default, False)
create_workflow_state_default_skip(community_id, query, chat_id, enable_answer_skipping, now) ==
    [ communityId |-> community_id,
      route |-> [source |-> "temporal", destination |-> None],
      question |-> [message |-> query, filters |-> None],
      response |-> None,
      metadata |-> Dict(<<>>),
      createdAt |-> now,
      updatedAt |-> now,
      steps |-> <<>>,
      currentStep |-> "initialized",
      status |-> "running",
      chatId |-> chat_id,
      enableAnswerSkipping |-> FALSE ]
create_workflow_state(community_id, query, chat_id, enable_answer_skipping, now) ==
    [ communityId |-> community_id,
      route |-> [source |-> "temporal", destination |-> None],
      question |-> [message |-> query, filters |-> None],
      response |-> None,
      metadata |-> Dict(<<>>),
      createdAt |-> now,
      updatedAt |-> now,
      steps |-> <<>>,
      currentStep |-> "initialized",
      status |-> "running",
      chatId |-> chat_id,
      enableAnswerSkipping |-> enable_answer_skipping ]

\* {"$push": {"steps": step_entry}, "$set": {"currentStep", "status", "updatedAt"}}
\* (faulty variants: the entry is put in front of the list; the step list is
\* replaced by the new entry)
update_workflow_step_prepending(doc, step_name, step_data, status, now) ==
    [doc EXCEPT !.steps = << [stepName |-> step_name, timestamp |-> now,
                              data |-> step_data] >> \o @,
                !.currentStep = step_name,
                !.status = status,
                !.updatedAt = now]
update_workflow_step_replacing(doc, step_name, step_data, status, now) ==
    [doc EXCEPT !.steps = << [stepName |-> step_name, timestamp |-> now,
                              data |-> step_data] >>,
                !.currentStep = step_name,
                !.status = status,
                !.updatedAt = now]
update_workflow_step(doc, step_name, step_data, status, now) ==
    [doc EXCEPT !.steps = Append(@, [stepName |-> step_name, timestamp |-> now,
                                     data |-> step_data]),
                !.currentStep = step_name,
                !.status = status,
                !.updatedAt = now]

\* {"$set": {"response.message", "status", "updatedAt"}}
\* (a faulty variant: the status is left out of the update)
update_response_message_only(doc, response_message, status, now) ==
    [doc EXCEPT !.response = [message |-> response_message],
                !.updatedAt = now]
\* (a faulty variant: the update also marks the record's current step)
update_response_marking_step(doc, response_message, status, now) ==
    [doc EXCEPT !.response = [message |-> response_message],
                !.status = status,
                !.currentStep = "response",
                !.updatedAt = now]
update_response(doc, response_message, status, now) ==
    [doc EXCEPT !.response = [message |-> response_message],
                !.status = status,
                !.updatedAt = now]

\* insert_one(workflow_state) and `return str(result.inserted_id)`; the store
\* raises when it is unavailable and create_workflow_state re-raises
insert_one(coll, up, workflow_state) ==
    IF up
    THEN [collection |-> Append(coll, workflow_state),
          ret |-> Return(ObjectIdStr(Len(coll) + 1))]
    ELSE [collection |-> coll, ret |-> Raise("ConnectionFailure")]

\* the document after update_data is applied to it; update_data names the method
\* that built it and carries the method's arguments
ApplyUpdate(doc, update_data) ==
    IF update_data.method = "update_workflow_step"
    THEN update_workflow_step(doc, update_data.name, update_data.data,
                              update_data.status, update_data.now)
    ELSE update_response(doc, update_data.data, update_data.status, update_data.now)

\* update_one({"_id": ObjectId(workflow_id)}, update_data) inside try/except, and
\* `return result.modified_count > 0`: any exception becomes False
\* (a faulty variant: the method returns True whatever happened)
update_one_returning_true(coll, up, wid, update_data) ==
    IF ~up \/ ObjectId(wid).kind = "raise" THEN [collection |-> coll, ret |-> TRUE]
    ELSE LET oid == ObjectId(wid).val IN
         IF oid \notin DOMAIN coll THEN [collection |-> coll, ret |-> TRUE]
         ELSE [collection |-> [coll EXCEPT ![oid] = ApplyUpdate(@, update_data)],
               ret |-> TRUE]
update_one(coll, up, wid, update_data) ==
    IF ~up \/ ObjectId(wid).kind = "raise" THEN [collection |-> coll, ret |-> FALSE]
    ELSE LET oid == ObjectId(wid).val IN
         IF oid \notin DOMAIN coll THEN [collection |-> coll, ret |-> FALSE]
         ELSE [collection |-> [coll EXCEPT ![oid] = ApplyUpdate(@, update_data)],
               ret |-> ApplyUpdate(coll[oid], update_data) # coll[oid]]

\* find_one({"_id": ObjectId(workflow_id)}) inside try/except; the document's
\* _id is returned as text
get_workflow_state(coll, up, wid) ==
    IF ~up \/ ObjectId(wid).kind = "raise" THEN None
    ELSE LET oid == ObjectId(wid).val IN
         IF oid \notin DOMAIN coll THEN None
         ELSE [type |-> "dict", val |-> coll[oid], id |-> ObjectIdStr(oid)]

(***************************************************************************)
(* QueryDataSources.query and the tool of make_rag_tool.  The environment  *)
(* of one retrieval: whether TemporalClient().get_client() succeeds,       *)
(* whether TEMPORAL_HIVEMIND_TASK_QUEUE is set, and what the remote        *)
(* workflow does: [kind |-> "raise", exc, val] or [kind |-> "return", ..]. *)
(***************************************************************************)
FailureMarker == "workflowExecutionFailedEventAttributes"

\* the failure-shaped payloads that query turns into None
\* (a faulty variant: a failure serialized into a string is let through)
IsFailureShapedDictOnly(result) ==
    result.type = "dict"
        /\ (Contains(result.val, <<FailureMarker>>) \/ Contains(result.val, <<"failure">>))
IsFailureShaped(result) ==
    \/ result.type = "dict"
        /\ (Contains(result.val, <<FailureMarker>>) \/ Contains(result.val, <<"failure">>))
    \/ result.type = "str" /\ Contains(result.val, <<FailureMarker>>)

\* load_hivemind_queue: os.getenv("TEMPORAL_HIVEMIND_TASK_QUEUE") or ValueError
load_hivemind_queue(queue_env) ==
    IF queue_env = "" THEN Raise("ValueError") ELSE Return(Str(<<queue_env>>))

\* client.execute_workflow("HivemindWorkflow", ..., retry_policy=RetryPolicy(
\* maximum_attempts=...)) as the remote facility serves it.  A run of the remote
\* workflow is: whether the request reaches the facility, how many attempts of the
\* workflow fail before one succeeds, and what a successful attempt returns.  The
\* facility starts a new attempt after a failed one while the policy allows it and
\* then reports WorkflowFailureError.
\* (a faulty variant: the facility retries until an attempt succeeds)
execute_workflow_unbounded(run, maximum_attempts) ==
    IF ~run.transport_ok THEN [outcome |-> Raise("RuntimeError"), attempts |-> 0]
    ELSE [outcome |-> Return(run.payload), attempts |-> run.failures + 1]
execute_workflow(run, maximum_attempts) ==
    IF ~run.transport_ok THEN [outcome |-> Raise("RuntimeError"), attempts |-> 0]
    ELSE IF run.failures >= maximum_attempts
         THEN [outcome |-> Raise("WorkflowFailureError"), attempts |-> maximum_attempts]
    ELSE [outcome |-> Return(run.payload), attempts |-> run.failures + 1]

\* the try block of query: execute_workflow and the normalisation of its result
execute_and_normalize(remote) ==
    IF remote.kind = "raise" THEN Return(None)
    ELSE IF IsFailureShaped(remote.val) THEN Return(None)
    ELSE Return(remote.val)

query(env) ==
    IF ~env.client_ok THEN Raise("RuntimeError")
    ELSE IF load_hivemind_queue(env.queue_env).kind = "raise"
         THEN load_hivemind_queue(env.queue_env)
    ELSE execute_and_normalize(env.remote)

\* get_rag_answer: crewai does not let the tool return None
get_rag_answer(env) ==
    LET response == query(env) IN
    IF response.kind = "raise" THEN response
    ELSE IF response.val = None THEN Return(Str(<<"NONE">>))
    ELSE response

(***************************************************************************)
(* The inputs the model draws from.                                        *)
(***************************************************************************)
Queries == { <<"What's", "2+2?">>, <<"hello">> }
ChatIds == { "", "chat1" }
Histories == { None, Str(<<"User:", "hi", "Agent:", "hey">>) }

\* answers a generator (LLM agent, crew) or the remote retrieval may produce
Answers == { <<"4">>, <<"NONE">>, <<"I", "Encountered", "an", "ERROR">> }

\* labels of the local question-vs-statement pipeline
Labels == { "LABEL_0", "LABEL_1", "LABEL_2" }

\* raw responses of the is-question model
QuestionResponses ==
    { <<"Reasoning:", "asks", "Result:", "true">>,
      <<"Reasoning:", "states", "Result:", "False">>,
      <<"Reasoning:", "unclear", "Result:", "maybe">>,
      <<"Reasoning:", "unknown", "Result:", "maybe">>,
      <<"Reasoning:", "yes", "probably", "Result:", "unsure">>,
      <<"This", "is", "a", "question:", "true">>,
      <<"yes">> }

\* raw responses of the RAG-sensitivity model
ScoreResponses ==
    { <<"Reasoning:", "specific", "Score:", "0.7">>,
      <<"Reasoning:", "borderline", "Score:", "0.5">>,
      <<"Reasoning:", "chat", "Score:", "0.3">>,
      <<"Reasoning:", "odd", "Score:", "1.5">>,
      <<"Reasoning:", "odd", "Score:", "high">>,
      <<"0.7">>,
      <<"-0.2">> }

\* what a successful attempt of the remote HivemindWorkflow may return
RemotePayloads ==
    { Dict(<<"failure">>), Dict(<<FailureMarker>>), Str(<<"event", FailureMarker>>),
      None }
    \cup { Str(a) : a \in Answers }

\* the runs of the remote workflow: it succeeds at once; it succeeds at its third
\* attempt; it fails three times, or more often if it were let; the request does
\* not reach the facility
RemoteRuns ==
    { [transport_ok |-> TRUE, failures |-> 0, payload |-> p] : p \in RemotePayloads }
    \cup { [transport_ok |-> TRUE, failures |-> f, payload |-> Str(<<"4">>)] :
               f \in {2, 3, 4} }
    \cup { [transport_ok |-> FALSE, failures |-> 0, payload |-> None] }

\* what client.execute_workflow may do under the policy of the call
RemoteOutcomes ==
    { execute_workflow(run, RetrievalMaximumAttempts).outcome : run \in RemoteRuns }

\* the environment of one retrieval; remote and attempts are the outcome of
\* execute_workflow and the attempts the facility made, if the call is reached
RetrievalEnv(client_ok, queue_env, run) ==
    [client_ok |-> client_ok, queue_env |-> queue_env,
     remote |-> execute_workflow(run, RetrievalMaximumAttempts).outcome,
     attempts |-> IF client_ok /\ queue_env # ""
                  THEN execute_workflow(run, RetrievalMaximumAttempts).attempts
                  ELSE 0]

\* the environments of one retrieval
RetrievalEnvs ==
    { RetrievalEnv(TRUE, "hivemind", run) : run \in RemoteRuns }
    \cup { RetrievalEnv(FALSE, "hivemind",
                        [transport_ok |-> TRUE, failures |-> 0, payload |-> None]),
           RetrievalEnv(TRUE, "",
                        [transport_ok |-> TRUE, failures |-> 0, payload |-> None]) }

NoRetrieval == [called |-> FALSE,
                env |-> [client_ok |-> TRUE, queue_env |-> "", remote |-> Return(None),
                         attempts |-> 0],
                query |-> Return(None), tool |-> Return(None)]

NoError == [type |-> "", message |-> ""]
Error(type, message) == [type |-> type, message |-> message]

FallbackAnswer == <<"Looks", "like", "things", "didn't", "go", "through.">>
NoAnswerGenerated == <<"No", "answer", "was", "generated.">>
ErrorPhrase == <<"encountered", "an", "error">>

(***************************************************************************)
(* State.                                                                  *)
(***************************************************************************)
VARIABLES
    payload,       \* HivemindQueryPayload: community_id, query, enable_answer_skipping, chat_id
    apc,           \* position of run_hivemind_agent_activity ("none": no activity)
    workflow_id,   \* the activity's workflow_id: index in collection, 0 for None
    collection,    \* the documents of the Mongo collection
    storeUp,       \* whether the document store answers
    flips,         \* how often storeUp changed
    redis,         \* the blob of the conversation key: None or a str
    memory,        \* the activity's memory: whether a RedisMemory was built
    flow,          \* the attributes of the AgenticHivemindFlow object
    state,         \* AgenticFlowState
    fpc,           \* position of the flow: the handler to run next
    output,        \* output of the last handler of the flow (kickoff's result)
    calls,         \* the capability calls made so far, in order
    rag,           \* the last retrieval made by the RAG tool
    relative,      \* the validator's verdict on the last generated answer
    crew_output,   \* the activity's crew_output
    final_answer,  \* the activity's final_answer
    chat_history,  \* the activity's chat_history
    result,        \* how the activity ended: Return(v) or Raise(exc)
    error,         \* the exception in flight
    audit,         \* the calls made on MongoPersistence so far, with what they returned
    classifier,    \* a ClassifyQuestion object used on its own: its attributes
    verdict,       \* what the last call on that object did: Return(v) or Raise(exc)
    rkey,          \* the conversation key in Redis: its value and when it expires
    clock,         \* the time, in minutes
    rlog,          \* the calls made on a RedisMemory used on its own, with their results
    written_at,    \* when the key was last written and not deleted since (-1: never)
    clients,       \* the clients appending to the conversation key at the same time
    wf             \* the hosting workflow: the attempts it started and how it ended

vars == << payload, apc, workflow_id, collection, storeUp, flips, redis, memory,
           flow, state, fpc, output, calls, rag, relative, crew_output,
           final_answer, chat_history, result, error, audit,
           classifier, verdict, rkey, clock, rlog, written_at, clients, wf >>

envVars == << storeUp, flips >>
unitVars == << classifier, verdict, rkey, clock, rlog, written_at, clients, wf >>
activityVars ==
    << apc, workflow_id, memory, crew_output, final_answer, chat_history, result >>
flowVars == << flow, state, fpc, output, rag, relative >>

\* AgenticFlowState's defaults
AgenticFlowState ==
    [user_query |-> <<>>, retry_count |-> 0, last_answer |-> None,
     state |-> "continue", chat_history |-> None]

NoFlow == [enable_answer_skipping |-> FALSE, workflow_id |-> 0,
           mongo_persistence |-> FALSE, max_retry_count |-> DefaultMaxRetryCount]

\* AgenticHivemindFlow.__init__
FlowObject(enable_answer_skipping, wid, mongo, max_retry_count) ==
    [enable_answer_skipping |-> enable_answer_skipping, workflow_id |-> wid,
     mongo_persistence |-> mongo, max_retry_count |-> max_retry_count]

FlowState(q, history) ==
    [AgenticFlowState EXCEPT !.user_query = q, !.chat_history = history]

\* no ClassifyQuestion and no RedisMemory is used on its own
NoClassifier == [built |-> FALSE, rag_threshold |-> 0, enable_reasoning |-> FALSE]
NoVerdict == [op |-> "", response |-> <<>>, threshold |-> 0, ret |-> Return(None)]
AbsentKey == [val |-> None, expire_at |-> 0]

\* the clients that append to one conversation key at the same time
ClientIds == {1, 2}

\* a client before its call: pc is the line of append_text it is at, overlapped
\* whether the other client ran a command between this client's get and setex
NoClient ==
    [pc |-> "idle", text |-> <<>>, current_value |-> None, success |-> FALSE,
     overlapped |-> FALSE]
NoClients == [c \in ClientIds |-> NoClient]

\* no hosting workflow: the activity or a unit is run on its own
NoWorkflow == [attempts |-> 0, status |-> "none"]

UnitsIdle ==
    /\ classifier = NoClassifier
    /\ verdict = NoVerdict
    /\ rkey = AbsentKey
    /\ clock = 0
    /\ rlog = <<>>
    /\ written_at = 0 - 1
    /\ clients = NoClients
    /\ wf = NoWorkflow

\* the state when the hosting workflow starts the activity
Init ==
    /\ payload \in [community_id : {"c1"}, query : Queries,
                    enable_answer_skipping : BOOLEAN, chat_id : ChatIds]
    /\ apc = "create"
    /\ workflow_id = 0
    /\ collection = <<>>
    /\ audit = <<>>
    /\ storeUp \in BOOLEAN
    /\ flips = 0
    /\ redis \in Histories
    /\ memory = FALSE
    /\ flow = NoFlow
    /\ state = AgenticFlowState
    /\ fpc = "idle"
    /\ output = None
    /\ calls = <<>>
    /\ rag = NoRetrieval
    /\ relative = TRUE
    /\ crew_output = None
    /\ final_answer = None
    /\ chat_history = None
    /\ result = Return(None)
    /\ error = NoError
    /\ UnitsIdle

(***************************************************************************)
(* The document store.                                                     *)
(***************************************************************************)
Running == apc \notin {"none", "returned", "raised"} \/ (apc = "none" /\ fpc \notin {"done", "raised"})

\* the store becomes unavailable, or available again
StoreFlip ==
    /\ Running
    /\ flips < MaxStoreFlips
    /\ storeUp' = ~storeUp
    /\ flips' = flips + 1
    /\ UNCHANGED unitVars
    /\ UNCHANGED << payload, redis, calls, error, collection, audit >>
    /\ UNCHANGED activityVars
    /\ UNCHANGED flowVars

\* the reading of datetime.now(tz=timezone.utc) at the next call on
\* MongoPersistence: the clock ticks once per call
Now(log) == Len(log)

\* an entry of the log of calls
Audited(op, wid, step_name, step_data, status, ret) ==
    [op |-> op, id |-> wid, stepName |-> step_name, data |-> step_data,
     status |-> status, ret |-> ret]

\* mongo_persistence.create_workflow_state(community_id=..., query=..., chat_id=...,
\* enable_answer_skipping=...) on the collection coll
CreateCall(coll, up, log, req) ==
    insert_one(coll, up,
               create_workflow_state(req.community_id, req.query, req.chat_id,
                                     req.enable_answer_skipping, Now(log)))

CreateLogged(req, ret) ==
    Audited("create_workflow_state", None, "",
            [community_id |-> req.community_id, query |-> req.query,
             chat_id |-> req.chat_id,
             enable_answer_skipping |-> req.enable_answer_skipping],
            "", ret)

\* mongo_persistence.update_workflow_step(wid, step_name, step_data, status) on the
\* collection coll
StepCall(coll, up, log, wid, step_name, step_data, status) ==
    update_one(coll, up, wid,
               [method |-> "update_workflow_step", name |-> step_name,
                data |-> step_data, status |-> status, now |-> Now(log)])

\* mongo_persistence.update_response(wid, response_message, status)
ResponseCall(coll, up, log, wid, response_message, status) ==
    update_one(coll, up, wid,
               [method |-> "update_response", name |-> "", data |-> response_message,
                status |-> status, now |-> Now(log)])

\* the activity and the flow hold the identifier create_workflow_state returned:
\* the text of the wid-th ObjectId
StepWritten(wid, step_name, step_data, status) ==
    LET call == StepCall(collection, storeUp, audit, ObjectIdStr(wid),
                         step_name, step_data, status) IN
    /\ collection' = call.collection
    /\ audit' = Append(audit, Audited("update_workflow_step", ObjectIdStr(wid),
                                      step_name, step_data, status, call.ret))

ResponseWritten(wid, response_message, status) ==
    LET call == ResponseCall(collection, storeUp, audit, ObjectIdStr(wid),
                             response_message, status) IN
    /\ collection' = call.collection
    /\ audit' = Append(audit, Audited("update_response", ObjectIdStr(wid), "",
                                      response_message, status, call.ret))

(***************************************************************************)
(* run_hivemind_agent_activity, up to the start of the flow.  The activity *)
(* is one coroutine; apc is its position, one step per external call.      *)
(***************************************************************************)
\* mongo_persistence.create_workflow_state(...): re-raises what the store raises
Create ==
    /\ apc = "create"
    /\ LET call == CreateCall(collection, storeUp, audit, payload) IN
       /\ collection' = call.collection
       /\ audit' = Append(audit, CreateLogged(payload, call.ret))
       /\ IF call.ret.kind = "return"
          THEN /\ workflow_id' = ObjectId(call.ret.val).val
               /\ apc' = "initialization"
               /\ error' = error
          ELSE /\ error' = Error(call.ret.exc, "create_workflow_state")
               /\ apc' = "except"
               /\ workflow_id' = workflow_id
    /\ UNCHANGED unitVars
    /\ UNCHANGED << payload, redis, calls, memory, crew_output, final_answer,
                    chat_history, result >>
    /\ UNCHANGED envVars
    /\ UNCHANGED flowVars

\* an audit step of the activity that does nothing else: write it and move on
ActivityStep(at, step_name, step_data, next) ==
    /\ apc = at
    /\ StepWritten(workflow_id, step_name, step_data, "running")
    /\ apc' = next
    /\ UNCHANGED unitVars
    /\ UNCHANGED << payload, redis, calls, error, workflow_id, memory, crew_output,
                    final_answer, chat_history, result >>
    /\ UNCHANGED envVars
    /\ UNCHANGED flowVars

StepInitialization ==
    ActivityStep("initialization", "initialization",
                 [communityId |-> payload.community_id, query |-> payload.query,
                  chatId |-> payload.chat_id,
                  enableAnswerSkipping |-> payload.enable_answer_skipping], "load_memory")

\* RedisMemory(key=...) and memory.get_text(); get_text returns None when Redis raises
LoadMemory ==
    /\ apc = "load_memory"
    /\ IF payload.chat_id # ""
       THEN \E env_ok \in BOOLEAN, redis_up \in BOOLEAN :
              IF env_ok
              THEN /\ memory' = TRUE
                   /\ chat_history' = IF redis_up THEN redis ELSE None
                   /\ apc' = "chat_history_retrieval"
                   /\ error' = error
              ELSE /\ error' = Error("ValueError", "REDIS env must be set")
                   /\ apc' = "except"
                   /\ UNCHANGED << memory, chat_history >>
       ELSE /\ chat_history' = None
            /\ memory' = FALSE
            /\ apc' = "no_chat_history"
            /\ error' = error
    /\ UNCHANGED unitVars
    /\ UNCHANGED << payload, redis, calls, collection, audit, workflow_id, crew_output,
                    final_answer, result >>
    /\ UNCHANGED envVars
    /\ UNCHANGED flowVars

StepChatHistoryRetrieval ==
    ActivityStep("chat_history_retrieval", "chat_history_retrieval",
                 [chatId |-> payload.chat_id,
                  chatHistoryLength |-> IF Truthy(chat_history) THEN Len(chat_history.val) ELSE 0],
                 "flow_initialization")

StepNoChatHistory ==
    ActivityStep("no_chat_history", "no_chat_history",
                 [reason |-> "No chat_id provided"], "flow_initialization")

StepFlowInitialization ==
    ActivityStep("flow_initialization", "flow_initialization",
                 [flowType |-> "AgenticHivemindFlow",
                  enableAnswerSkipping |-> payload.enable_answer_skipping],
                 "flow_execution_start")

\* flow = AgenticHivemindFlow(...), then the flow_execution_start step
ConstructFlow ==
    /\ apc = "flow_execution_start"
    /\ flow' = FlowObject(payload.enable_answer_skipping, workflow_id, TRUE,
                          DefaultMaxRetryCount)
    /\ state' = FlowState(payload.query, chat_history)
    /\ StepWritten(workflow_id, "flow_execution_start",
                                 [userQuery |-> payload.query], "running")
    /\ apc' = "kickoff"
    /\ UNCHANGED unitVars
    /\ UNCHANGED << payload, redis, calls, error, workflow_id, memory, crew_output,
                    final_answer, chat_history, result, fpc, output, rag, relative >>
    /\ UNCHANGED envVars

\* await flow.kickoff_async(...): the flow's start method is scheduled
Kickoff ==
    /\ apc = "kickoff"
    /\ fpc = "idle"
    /\ fpc' = "detect_question"
    /\ apc' = "await_flow"
    /\ UNCHANGED unitVars
    /\ UNCHANGED << payload, redis, calls, error, collection, audit, workflow_id, memory,
                    crew_output, final_answer, chat_history, result, flow, state,
                    output, rag, relative >>
    /\ UNCHANGED envVars

(***************************************************************************)
(* AgenticHivemindFlow.  The flow framework runs the @start method, then   *)
(* the handlers listening to each label a router returns; kickoff returns  *)
(* the output of the last handler run.  fpc is the handler to run next.    *)
(***************************************************************************)
\* a capability call: the operation, the raw output it got, the value made of it
Call(op, raw, res) == [op |-> op, raw |-> raw, result |-> res]

\* `if not self.enable_answer_skipping: self.state.state = "continue"; return`
\* (a faulty variant: the flag is read the wrong way round)
GateBypassedInverted(f) == f.enable_answer_skipping
GateBypassed(f) == ~f.enable_answer_skipping

\* `if not question: stop` and `if not is_question.result: stop`: None is falsy
\* (a faulty variant: a negative verdict does not end the cascade)
GateNeverStops(res) == "pass"
GateAfterLocal(res) == IF res # "True" THEN "stop" ELSE "pass"
GateAfterQuestion(res) == IF res # "True" THEN "stop" ELSE "pass"

\* (a faulty variant: a positive RAG verdict stops the flow)
GateAfterRagInverted(res) == IF res = "True" THEN "stop" ELSE "continue"
\* `self.state.state = "continue" if rag_question.result else "stop"`
GateAfterRag(res) == IF res = "True" THEN "continue" ELSE "stop"

\* @router("continue"), @listen("stop"), @router("rag"), @router("history")
Listener(label) ==
    CASE label = "continue" -> "detect_question_type"
      [] label = "stop" -> "detect_stop_state"
      [] label = "rag" -> "do_rag_query"
      [] label = "history" -> "do_history_query"
      [] OTHER -> "done"

\* `if self.mongo_persistence and self.workflow_id: update_workflow_step(...)`
\* (a faulty variant: the handler does not persist its result)
FlowStepSkipped(step_name, step_data) == UNCHANGED << collection, audit >>
FlowStepWritten(step_name, step_data) ==
    IF flow.mongo_persistence /\ flow.workflow_id # 0
    THEN StepWritten(flow.workflow_id, step_name, step_data, "running")
    ELSE UNCHANGED << collection, audit >>

\* the positions of the flow at which a remote capability is called
RemoteCallAt ==
    [ detect_question |-> "classify_message",
      detect_question_lm |-> "classify_question_lm",
      detect_question_rag |-> "classify_message_lm",
      detect_question_type |-> "classify_query",
      do_rag_query |-> "agent_executor.invoke",
      do_history_query |-> "crew.kickoff" ]

\* a remote call of a handler raises (transport, API error): the flow raises
RemoteCallFails ==
    /\ fpc \in DOMAIN RemoteCallAt
    /\ fpc = "detect_question" => ~GateBypassed(flow)
    /\ fpc = "detect_question_type" => Truthy(state.chat_history)
    /\ fpc \in {"do_rag_query", "do_history_query"} => state.retry_count < MaxPasses
    /\ calls' = Append(calls, Call(RemoteCallAt[fpc], <<>>, "raise"))
    /\ error' = Error("APIError", RemoteCallAt[fpc])
    /\ fpc' = "raised"
    /\ UNCHANGED unitVars
    /\ UNCHANGED << payload, redis, collection, audit, flow, state, output, rag, relative >>
    /\ UNCHANGED envVars
    /\ UNCHANGED activityVars

\* detect_question with answer skipping disabled
detect_question_bypass ==
    /\ fpc = "detect_question"
    /\ GateBypassed(flow)
    /\ state' = [state EXCEPT !.state = "continue"]
    /\ output' = None
    /\ fpc' = "route_start"
    /\ UNCHANGED unitVars
    /\ UNCHANGED << payload, redis, collection, audit, calls, error, flow, rag, relative >>
    /\ UNCHANGED envVars
    /\ UNCHANGED activityVars

\* detect_question, first stage: the local question-vs-statement model
detect_question_local ==
    /\ fpc = "detect_question"
    /\ ~GateBypassed(flow)
    /\ \E label \in Labels :
         LET question == classify_message(label) IN
         /\ calls' = Append(calls, Call("classify_message", <<label>>, question))
         /\ FlowStepWritten("local_model_classification",
                              [result |-> question, model |-> "local_transformer",
                               query |-> state.user_query])
         /\ IF GateAfterLocal(question) = "stop"
            THEN /\ state' = [state EXCEPT !.state = "stop"]
                 /\ fpc' = "route_start"
            ELSE /\ state' = state
                 /\ fpc' = "detect_question_lm"
    /\ output' = None
    /\ UNCHANGED unitVars
    /\ UNCHANGED << payload, redis, error, flow, rag, relative >>
    /\ UNCHANGED envVars
    /\ UNCHANGED activityVars

\* detect_question, second stage: the language model's is-question verdict
detect_question_lm ==
    /\ fpc = "detect_question_lm"
    /\ \E response \in QuestionResponses :
         LET is_question == classify_question_lm(response, TRUE) IN
         /\ calls' = Append(calls, Call("classify_question_lm", response, is_question.result))
         /\ IF is_question.result = "raise"
            THEN /\ error' = Error("ValueError", "classify_question_lm")
                 /\ fpc' = "raised"
                 /\ UNCHANGED << collection, audit, state >>
            ELSE /\ FlowStepWritten("question_classification",
                                      [result |-> is_question.result,
                                       reasoning |-> is_question.reasoning,
                                       model |-> "language_model",
                                       query |-> state.user_query])
                 /\ error' = error
                 /\ IF GateAfterQuestion(is_question.result) = "stop"
                    THEN /\ state' = [state EXCEPT !.state = "stop"]
                         /\ fpc' = "route_start"
                    ELSE /\ state' = state
                         /\ fpc' = "detect_question_rag"
    /\ UNCHANGED unitVars
    /\ UNCHANGED << payload, redis, flow, output, rag, relative >>
    /\ UNCHANGED envVars
    /\ UNCHANGED activityVars

\* detect_question, third stage: the RAG-sensitivity score
detect_question_rag ==
    /\ fpc = "detect_question_rag"
    /\ \E response \in ScoreResponses :
         LET rag_question == classify_message_lm(response, TRUE, RagThresholdTenths) IN
         /\ calls' = Append(calls, Call("classify_message_lm", response, rag_question.result))
         /\ IF rag_question.result = "raise"
            THEN /\ error' = Error("ValueError", "classify_message_lm")
                 /\ fpc' = "raised"
                 /\ UNCHANGED << collection, audit, state >>
            ELSE /\ FlowStepWritten("rag_classification",
                                      [result |-> rag_question.result,
                                       score |-> rag_question.score,
                                       reasoning |-> rag_question.reasoning,
                                       model |-> "language_model",
                                       query |-> state.user_query])
                 /\ error' = error
                 /\ state' = [state EXCEPT !.state = GateAfterRag(rag_question.result)]
                 /\ fpc' = "route_start"
    /\ UNCHANGED unitVars
    /\ UNCHANGED << payload, redis, flow, output, rag, relative >>
    /\ UNCHANGED envVars
    /\ UNCHANGED activityVars

\* (a faulty variant: the router does not look at the gate's decision)
route_start_label_always_continue(st) == "continue"
\* route_start's return value
route_start_label(st) ==
    IF st = "continue" THEN "continue"
    ELSE IF st = "stop" THEN "stop"
    ELSE "None"

\* @router(detect_question)
route_start ==
    /\ fpc = "route_start"
    /\ output' = Str(<<route_start_label(state.state)>>)
    /\ fpc' = Listener(route_start_label(state.state))
    /\ UNCHANGED unitVars
    /\ UNCHANGED << payload, redis, collection, audit, calls, error, flow, state, rag, relative >>
    /\ UNCHANGED envVars
    /\ UNCHANGED activityVars

\* @listen("stop")
detect_stop_state ==
    /\ fpc = "detect_stop_state"
    /\ output' = state.last_answer
    /\ fpc' = "done"
    /\ UNCHANGED unitVars
    /\ UNCHANGED << payload, redis, collection, audit, calls, error, flow, state, rag, relative >>
    /\ UNCHANGED envVars
    /\ UNCHANGED activityVars

\* (a faulty variant: the two strategies are swapped)
question_type_label_swapped(is_history_query) ==
    IF is_history_query THEN "rag" ELSE "history"
\* detect_question_type's return value
question_type_label(is_history_query) == IF is_history_query THEN "history" ELSE "rag"

\* @router("continue")
detect_question_type ==
    /\ fpc = "detect_question_type"
    /\ IF Truthy(state.chat_history)
       THEN \E is_history_query \in BOOLEAN :
              /\ calls' = Append(calls, Call("classify_query", <<>>,
                                 IF is_history_query THEN "True" ELSE "False"))
              /\ FlowStepWritten("history_query_classification",
                                   [result |-> is_history_query, model |-> "openai_gpt4",
                                    query |-> state.user_query,
                                    hasChatHistory |-> TRUE])
              /\ output' = Str(<<question_type_label(is_history_query)>>)
              /\ fpc' = Listener(question_type_label(is_history_query))
       ELSE /\ output' = Str(<<question_type_label(FALSE)>>)
            /\ fpc' = Listener(question_type_label(FALSE))
            /\ UNCHANGED << calls, collection, audit >>
    /\ UNCHANGED unitVars
    /\ UNCHANGED << payload, redis, error, flow, state, rag, relative >>
    /\ UNCHANGED envVars
    /\ UNCHANGED activityVars

\* the labels the generation handlers return
\* (faulty variants: the handler routes back to itself)
do_rag_query_again == "rag"
do_rag_query_label == "stop"
do_history_query_again == "history"
do_history_query_label == "stop"

\* (a faulty variant: a generation pass is not counted)
NextRetryCountUnchanged(n) == n
\* `self.state.retry_count += 1`
NextRetryCount(n) == n + 1

GenerationOps == {"agent_executor.invoke", "crew.kickoff"}

\* the calls one run of the RAG tool makes: execute_workflow is reached only with a
\* client and a queue name
RetrievalCalls(env) ==
    IF env.client_ok /\ env.queue_env # ""
    THEN << Call("execute_workflow", <<>>, env.remote.kind) >>
    ELSE << >>

\* what agent_executor.invoke returns as result["output"]: the tool's value when the
\* model calls the tool (return_direct=True), else the model's own text
\* @router("rag")
do_rag_query ==
    /\ fpc = "do_rag_query"
    /\ state.retry_count < MaxPasses
    /\ \/ \E env \in RetrievalEnvs :
            LET tool == get_rag_answer(env) IN
            /\ rag' = [called |-> TRUE, env |-> env, query |-> query(env), tool |-> tool]
            /\ IF tool.kind = "raise"
               THEN /\ calls' = Append(calls, Call("agent_executor.invoke", <<>>, "raise"))
                                    \o RetrievalCalls(env)
                    /\ error' = Error(tool.exc, "get_rag_answer")
                    /\ fpc' = "raised"
                    /\ UNCHANGED << state, output >>
               ELSE /\ calls' = Append(calls, Call("agent_executor.invoke", <<>>, "ok"))
                                    \o RetrievalCalls(env)
                    /\ state' = [state EXCEPT !.last_answer = tool.val,
                                              !.retry_count = NextRetryCount(@)]
                    /\ output' = Str(<<do_rag_query_label>>)
                    /\ fpc' = Listener(do_rag_query_label)
                    /\ error' = error
       \/ \E a \in Answers :
            /\ calls' = Append(calls, Call("agent_executor.invoke", <<>>, "ok"))
            /\ state' = [state EXCEPT !.last_answer = Str(a), !.retry_count = NextRetryCount(@)]
            /\ output' = Str(<<do_rag_query_label>>)
            /\ fpc' = Listener(do_rag_query_label)
            /\ UNCHANGED << rag, error >>
    /\ relative' \in BOOLEAN
    /\ UNCHANGED unitVars
    /\ UNCHANGED << payload, redis, collection, audit, flow >>
    /\ UNCHANGED envVars
    /\ UNCHANGED activityVars

\* @router("history"): crew.kickoff() returns a CrewOutput
do_history_query ==
    /\ fpc = "do_history_query"
    /\ state.retry_count < MaxPasses
    /\ \E a \in Answers :
         /\ calls' = Append(calls, Call("crew.kickoff", <<>>, "ok"))
         /\ state' = [state EXCEPT !.last_answer = CrewOutput(a), !.retry_count = NextRetryCount(@)]
    /\ output' = Str(<<do_history_query_label>>)
    /\ fpc' = Listener(do_history_query_label)
    /\ relative' \in BOOLEAN
    /\ UNCHANGED unitVars
    /\ UNCHANGED << payload, redis, collection, audit, error, flow, rag >>
    /\ UNCHANGED envVars
    /\ UNCHANGED activityVars

FlowNext ==
    \/ RemoteCallFails
    \/ detect_question_bypass
    \/ detect_question_local
    \/ detect_question_lm
    \/ detect_question_rag
    \/ route_start
    \/ detect_stop_state
    \/ detect_question_type
    \/ do_rag_query
    \/ do_history_query

(***************************************************************************)
(* run_hivemind_agent_activity, after the flow.                            *)
(***************************************************************************)
\* (a faulty variant: the end of the flow is not recorded)
FlowReturnedUnrecorded ==
    /\ apc = "await_flow"
    /\ fpc = "done"
    /\ crew_output' = output
    /\ apc' = "answer_processing"
    /\ UNCHANGED unitVars
    /\ UNCHANGED << payload, redis, calls, error, collection, audit, workflow_id, memory,
                    final_answer, chat_history, result >>
    /\ UNCHANGED envVars
    /\ UNCHANGED flowVars
\* kickoff_async returned: crew_output is the flow's result
FlowReturned ==
    /\ apc = "await_flow"
    /\ fpc = "done"
    /\ crew_output' = output
    /\ StepWritten(workflow_id, "flow_execution_complete",
                         [crewOutputType |-> output.type,
                          hasOutput |-> output # None], "running")
    /\ apc' = "answer_processing"
    /\ UNCHANGED unitVars
    /\ UNCHANGED << payload, redis, calls, error, workflow_id, memory, final_answer,
                    chat_history, result >>
    /\ UNCHANGED envVars
    /\ UNCHANGED flowVars

\* kickoff_async raised: control passes to `except Exception`
FlowRaised ==
    /\ apc = "await_flow"
    /\ fpc = "raised"
    /\ apc' = "except"
    /\ UNCHANGED unitVars
    /\ UNCHANGED << payload, redis, calls, error, collection, audit, workflow_id, memory,
                    crew_output, final_answer, chat_history, result >>
    /\ UNCHANGED envVars
    /\ UNCHANGED flowVars

\* lines 118-123: what the activity makes of the flow's result
\* (a faulty variant: the placeholder answer is used whatever the skipping flag says)
AnswerOfIgnoringSkip(out, enable_answer_skipping) ==
    IF IsCrewOutput(out) THEN Str(out.val) ELSE Str(NoAnswerGenerated)
AnswerOf(out, enable_answer_skipping) ==
    IF IsCrewOutput(out) THEN Str(out.val)
    ELSE IF ~enable_answer_skipping THEN Str(NoAnswerGenerated)
    ELSE None

AnswerProcessing ==
    /\ apc = "answer_processing"
    /\ final_answer' = AnswerOf(crew_output, payload.enable_answer_skipping)
    /\ StepWritten(workflow_id, "answer_processing",
                         [answerType |-> final_answer'.type,
                          answerLength |-> IF IsStr(final_answer')
                                           THEN Len(final_answer'.val) ELSE 0,
                          enableAnswerSkipping |-> payload.enable_answer_skipping],
                         "running")
    /\ apc' = "error_handling"
    /\ UNCHANGED unitVars
    /\ UNCHANGED << payload, redis, calls, error, workflow_id, memory, crew_output,
                    chat_history, result >>
    /\ UNCHANGED envVars
    /\ UNCHANGED flowVars

\* (a faulty variant: the phrase is looked for without lowering the answer)
HasErrorPhraseCaseSensitive(answer) ==
    IsStr(answer) /\ Contains(answer.val, ErrorPhrase)
\* `isinstance(final_answer, str) and "encountered an error" in final_answer.lower()`
HasErrorPhrase(answer) ==
    IsStr(answer) /\ Contains(LowerText(answer.val), ErrorPhrase)

ErrorHandling ==
    /\ apc = "error_handling"
    /\ IF HasErrorPhrase(final_answer)
       THEN /\ StepWritten(workflow_id, "error_handling",
                                 [errorType |-> "crewai_error",
                                  originalAnswer |-> final_answer,
                                  fallbackAnswer |-> Str(FallbackAnswer)], "running")
            /\ final_answer' = Str(FallbackAnswer)
       ELSE UNCHANGED << collection, audit, final_answer >>
    /\ apc' = "memory_update"
    /\ UNCHANGED unitVars
    /\ UNCHANGED << payload, redis, calls, error, workflow_id, memory, crew_output,
                    chat_history, result >>
    /\ UNCHANGED envVars
    /\ UNCHANGED flowVars

\* f"User: {payload.query}\nAgent: {final_answer}"
ChatEntry(q, answer) ==
    <<"User:">> \o q \o <<"Agent:">>
        \o (IF answer.type = "NoneType" THEN <<"None">> ELSE answer.val)

\* (a faulty variant: the text replaces the value of the key)
append_text_overwriting(blob, text) == Str(text)
\* RedisMemory.append_text on a store that answers: get, then setex
append_text(blob, text) ==
    IF Truthy(blob) THEN Str(blob.val \o text) ELSE Str(text)

\* `if memory and final_answer != "NONE": memory.append_text(chat)`
MemoryUpdate ==
    /\ apc = "memory_update"
    /\ IF memory /\ final_answer # Str(<<"NONE">>)
       THEN /\ \E redis_up \in BOOLEAN :
                 redis' = IF redis_up
                          THEN append_text(redis, ChatEntry(payload.query, final_answer))
                          ELSE redis
            /\ apc' = "memory_step"
       ELSE /\ redis' = redis
            /\ apc' = "update_response"
    /\ UNCHANGED unitVars
    /\ UNCHANGED << payload, collection, audit, calls, error, workflow_id, memory, crew_output,
                    final_answer, chat_history, result >>
    /\ UNCHANGED envVars
    /\ UNCHANGED flowVars

StepMemoryUpdate ==
    ActivityStep("memory_step", "memory_update",
                 [memoryKey |-> payload.chat_id,
                  chatEntryLength |-> Len(ChatEntry(payload.query, final_answer))],
                 "update_response")

\* (a faulty variant: the 'NONE' text is returned as it is)
ReturnValueUnmapped(answer) == answer
\* `if final_answer == "NONE": return None` and `else: return final_answer`
ReturnValue(answer) == IF answer = Str(<<"NONE">>) THEN None ELSE answer

\* lines 166-183: the final update_response and the return
Finalize ==
    /\ apc = "update_response"
    /\ IF Truthy(final_answer) /\ final_answer # Str(<<"NONE">>)
          THEN ResponseWritten(workflow_id, final_answer, "completed")
          ELSE ResponseWritten(workflow_id, Str(<<"No", "answer", "generated">>),
                               "completed_no_answer")
    /\ result' = Return(ReturnValue(final_answer))
    /\ apc' = "returned"
    /\ UNCHANGED unitVars
    /\ UNCHANGED << payload, redis, calls, error, workflow_id, memory, crew_output,
                    final_answer, chat_history >>
    /\ UNCHANGED envVars
    /\ UNCHANGED flowVars

\* the statuses the except block writes: status="failed" of the error_occurred
\* step and of update_response
\* (faulty variants: the step keeps the default status; the response is completed)
ErrorStepStatusDefault == "running"
ErrorStepStatus == "failed"
ErrorResponseStatusCompleted == "completed"
ErrorResponseStatus == "failed"

\* the bare `raise` that ends the except block
\* (a faulty variant: the block ends without it and the activity returns None)
Swallowed(err) == Return(None)
Reraised(err) == Raise(err.type)

\* `except Exception`: the error_occurred step, when a record was created
ExceptStep ==
    /\ apc = "except"
    /\ IF workflow_id # 0
       THEN /\ StepWritten(workflow_id, "error_occurred",
                                 [errorType |-> error.type,
                                  errorMessage |-> error.message], ErrorStepStatus)
            /\ apc' = "except_response"
            /\ result' = result
       ELSE /\ result' = Reraised(error)
            /\ apc' = "raised"
            /\ UNCHANGED << collection, audit >>
    /\ UNCHANGED unitVars
    /\ UNCHANGED << payload, redis, calls, error, workflow_id, memory, crew_output,
                    final_answer, chat_history >>
    /\ UNCHANGED envVars
    /\ UNCHANGED flowVars

\* `except Exception`: update_response(None, "failed"), then `raise`
ExceptResponse ==
    /\ apc = "except_response"
    /\ ResponseWritten(workflow_id, None, ErrorResponseStatus)
    /\ result' = Reraised(error)
    /\ apc' = "raised"
    /\ UNCHANGED unitVars
    /\ UNCHANGED << payload, redis, calls, error, workflow_id, memory, crew_output,
                    final_answer, chat_history >>
    /\ UNCHANGED envVars
    /\ UNCHANGED flowVars

ActivityNext ==
    \/ Create
    \/ StepInitialization
    \/ LoadMemory
    \/ StepChatHistoryRetrieval
    \/ StepNoChatHistory
    \/ StepFlowInitialization
    \/ ConstructFlow
    \/ Kickoff
    \/ FlowReturned
    \/ FlowRaised
    \/ AnswerProcessing
    \/ ErrorHandling
    \/ MemoryUpdate
    \/ StepMemoryUpdate
    \/ Finalize
    \/ ExceptStep
    \/ ExceptResponse

Next == ActivityNext \/ FlowNext \/ StoreFlip

\* one invocation of the activity
Spec == Init /\ [][Next]_vars

(***************************************************************************)
(* The flow on its own: an AgenticHivemindFlow built with any arguments    *)
(* and started by kickoff, with no activity around it.                     *)
(***************************************************************************)
\* the chat_history a flow is built with: nothing, a conversation, or the empty text
FlowHistories == Histories \cup {Str(<<>>)}

InitFlow ==
    /\ payload \in [community_id : {"c1"}, query : Queries,
                    enable_answer_skipping : BOOLEAN, chat_id : {""}]
    /\ apc = "none"
    /\ \E wid \in {0, 1} :
         /\ workflow_id = wid
         /\ collection = IF wid = 0 THEN <<>>
                         ELSE CreateCall(<<>>, TRUE, <<>>, payload).collection
         /\ audit = IF wid = 0 THEN <<>>
                    ELSE << CreateLogged(payload, CreateCall(<<>>, TRUE, <<>>, payload).ret) >>
         /\ \E mongo \in BOOLEAN, max_retry_count \in 0..MaxRetryBound :
              flow = FlowObject(payload.enable_answer_skipping, wid, mongo, max_retry_count)
    /\ storeUp \in BOOLEAN
    /\ flips = 0
    /\ redis = None
    /\ memory = FALSE
    /\ \E history \in FlowHistories : state = FlowState(payload.query, history)
    /\ fpc = "detect_question"
    /\ output = None
    /\ calls = <<>>
    /\ rag = NoRetrieval
    /\ relative = TRUE
    /\ crew_output = None
    /\ final_answer = None
    /\ chat_history = None
    /\ result = Return(None)
    /\ error = NoError
    /\ UnitsIdle

FlowSpecNext == FlowNext \/ StoreFlip

FlowSpec == InitFlow /\ [][FlowSpecNext]_vars

\* the framework runs every scheduled handler, and every remote call returns or raises
FairFlowSpec == InitFlow /\ [][FlowSpecNext]_vars /\ WF_vars(FlowNext)

(***************************************************************************)
(* MongoPersistence on its own: a client that makes any calls on one       *)
(* MongoPersistence object, with identifiers of any kind, while the store  *)
(* comes and goes.                                                         *)
(***************************************************************************)
\* the identifiers a client passes: the texts of the first MaxDocs ObjectIds
\* (stored or not), a text with a character that is no hexadecimal digit, and
\* the empty text
Identifiers ==
    { ObjectIdStr(k) : k \in 1..MaxDocs } \cup { Str(<<16>>), Str(<<>>) }

\* the requests create_workflow_state is called with
Requests ==
    [community_id : {"c1"}, query : {<<"q1">>}, enable_answer_skipping : BOOLEAN,
     chat_id : {"chat1"}]

\* the steps a client appends: name, data and status
StepInputs ==
    { [name |-> "initialization", data |-> [query |-> <<"q1">>], status |-> "running"],
      [name |-> "error_occurred", data |-> [errorType |-> "ValueError"],
       status |-> "failed"] }

\* the responses a client sets: message and status
ResponseInputs ==
    { [message |-> Str(<<"4">>), status |-> "completed"],
      [message |-> None, status |-> "failed"] }

InitPersist ==
    /\ payload \in [community_id : {"c1"}, query : {<<"q1">>},
                    enable_answer_skipping : {FALSE}, chat_id : {""}]
    /\ apc = "none"
    /\ workflow_id = 0
    /\ collection = <<>>
    /\ audit = <<>>
    /\ storeUp \in BOOLEAN
    /\ flips = 0
    /\ redis = None
    /\ memory = FALSE
    /\ flow = NoFlow
    /\ state = AgenticFlowState
    /\ fpc = "idle"
    /\ output = None
    /\ calls = <<>>
    /\ rag = NoRetrieval
    /\ relative = TRUE
    /\ crew_output = None
    /\ final_answer = None
    /\ chat_history = None
    /\ result = Return(None)
    /\ error = NoError
    /\ UnitsIdle

\* what a call on MongoPersistence leaves alone
PersistFrame ==
    /\ UNCHANGED unitVars
    /\ UNCHANGED << payload, redis, calls, error >>
    /\ UNCHANGED envVars
    /\ UNCHANGED activityVars
    /\ UNCHANGED flowVars

CallCreate ==
    /\ Len(audit) < MaxCalls
    /\ Len(collection) < MaxDocs
    /\ \E req \in Requests :
         LET call == CreateCall(collection, storeUp, audit, req) IN
         /\ collection' = call.collection
         /\ audit' = Append(audit, CreateLogged(req, call.ret))
    /\ PersistFrame

CallUpdateStep ==
    /\ Len(audit) < MaxCalls
    /\ \E wid \in Identifiers, step \in StepInputs :
         LET call == StepCall(collection, storeUp, audit, wid,
                              step.name, step.data, step.status) IN
         /\ collection' = call.collection
         /\ audit' = Append(audit, Audited("update_workflow_step", wid, step.name,
                                           step.data, step.status, call.ret))
    /\ PersistFrame

CallUpdateResponse ==
    /\ Len(audit) < MaxCalls
    /\ \E wid \in Identifiers, response \in ResponseInputs :
         LET call == ResponseCall(collection, storeUp, audit, wid,
                                  response.message, response.status) IN
         /\ collection' = call.collection
         /\ audit' = Append(audit, Audited("update_response", wid, "",
                                           response.message, response.status, call.ret))
    /\ PersistFrame

CallGet ==
    /\ Len(audit) < MaxCalls
    /\ \E wid \in Identifiers :
         audit' = Append(audit, Audited("get_workflow_state", wid, "", None, "",
                                        get_workflow_state(collection, storeUp, wid)))
    /\ collection' = collection
    /\ PersistFrame

PersistNext ==
    \/ CallCreate
    \/ CallUpdateStep
    \/ CallUpdateResponse
    \/ CallGet
    \/ StoreFlip

PersistSpec == InitPersist /\ [][PersistNext]_vars

(***************************************************************************)
(* Properties.                                                             *)
(***************************************************************************)
GateOps == << "classify_message", "classify_question_lm", "classify_message_lm" >>
GateOpSet == { GateOps[i] : i \in DOMAIN GateOps }

\* the gating classifier calls made so far, in order
GateCalls == SelectSeq(calls, LAMBDA c : c.op \in GateOpSet)

\* the number of generation passes completed so far
GenerationPasses ==
    Len(SelectSeq(calls, LAMBDA c : c.op \in GenerationOps /\ c.result = "ok"))

FlowEnded == fpc \in {"done", "raised"}

\* the activity's audit record
Doc == collection[workflow_id]

\* the store answered every call of this run
StoreAlwaysUp == storeUp /\ flips = 0

\* C1: with answer skipping disabled and the retrieval strategy taken, a retrieval
\* that succeeds with the text "4" makes the activity return "4" and finalize the
\* audit record with response message "4" and status "completed".
C1_RetrievedAnswerReturned ==
    ( /\ apc = "returned"
      /\ ~payload.enable_answer_skipping
      /\ StoreAlwaysUp
      /\ rag.called
      /\ rag.query = Return(Str(<<"4">>)) )
    => /\ result = Return(Str(<<"4">>))
       /\ Doc.response = [message |-> Str(<<"4">>)]
       /\ Doc.status = "completed"

\* C2: if enable_answer_skipping is false, detect_question leaves the routing state
\* 'continue' and no gating classifier is ever invoked.
C2_GateBypassedWhenSkippingDisabled ==
    (fpc \notin {"idle", "detect_question"} /\ ~flow.enable_answer_skipping)
    => /\ state.state = "continue"
       /\ GateCalls = <<>>

C2_Witness ==
    /\ apc = "await_flow"
    /\ ~flow.enable_answer_skipping
    /\ fpc = "do_rag_query"
    /\ calls = <<>>

\* the score a RAG-sensitivity response carries (its last token), in tenths
ScoreIn(raw) == Float(raw[Len(raw)])

\* the gate has made its routing decision
GateDecided ==
    /\ GateCalls # <<>>
    /\ LET last == GateCalls[Len(GateCalls)] IN
       \/ last.result \in {"False", "None"}
       \/ last.result = "True" /\ Len(GateCalls) = 3

\* C3: with answer skipping enabled the classifiers are consulted in the order
\* local, is-question, RAG score; one is invoked only if every earlier one was
\* positive; the first negative sets 'stop' and is the last classifier call; the
\* state is 'continue' exactly when all three are positive (score >= threshold).
C3_CascadeOrderAndShortCircuit ==
    flow.enable_answer_skipping =>
      LET g == GateCalls IN
      /\ Len(g) <= 3
      /\ \A i \in DOMAIN g : g[i].op = GateOps[i]
      /\ \A i \in DOMAIN g : i > 1 => g[i - 1].result = "True"
      /\ \A i \in DOMAIN g :
            g[i].result \in {"False", "None"} => i = Len(g) /\ state.state = "stop"
      /\ \A i \in DOMAIN g :
            (i = 3 /\ g[i].result # "raise")
               => (g[i].result = "True" <=> ScoreIn(g[i].raw) >= RagThresholdTenths)
      /\ GateDecided =>
            /\ state.state \in {"continue", "stop"}
            /\ state.state = "continue"
                 <=> (Len(g) = 3 /\ \A i \in DOMAIN g : g[i].result = "True")

C3_Witness ==
    /\ flow.enable_answer_skipping
    /\ Len(GateCalls) = 2
    /\ GateCalls[1].result = "True"
    /\ GateCalls[2].result = "False"
    /\ state.state = "stop"
    /\ fpc = "done"

RecognizedBooleans == {"true", "yes", "1", "false", "no", "0"}
ScoresInRange == {"0", "0.3", "0.5", "0.7", "1"}

\* a classifier output that is neither malformed, unrecognized nor out of range
WellFormed(c) ==
    CASE c.op = "classify_message" ->
            Len(c.raw) = 1 /\ c.raw[1] \in {"LABEL_0", "LABEL_1"}
      [] c.op = "classify_question_lm" ->
            \/ Len(c.raw) = 1 /\ Lower(c.raw[1]) \in RecognizedBooleans
            \/ /\ Len(c.raw) >= 3
               /\ c.raw[1] = "Reasoning:"
               /\ c.raw[Len(c.raw) - 1] = "Result:"
               /\ Lower(c.raw[Len(c.raw)]) \in RecognizedBooleans
      [] c.op = "classify_message_lm" ->
            \/ Len(c.raw) = 1 /\ c.raw[1] \in ScoresInRange
            \/ /\ Len(c.raw) >= 3
               /\ c.raw[1] = "Reasoning:"
               /\ c.raw[Len(c.raw) - 1] = "Score:"
               /\ c.raw[Len(c.raw)] \in ScoresInRange
      [] OTHER -> TRUE

\* C4: a failure of any gating classifier call (a malformed or unrecognized
\* response, an out-of-range score) raises out of the flow; it is never turned
\* into a 'continue' or 'stop' decision.
C4_ClassifierFailureIsFatal ==
    \A i \in DOMAIN calls :
        (calls[i].op \in GateOpSet /\ ~WellFormed(calls[i]))
        => calls[i].result = "raise" /\ fpc = "raised"

FailurePayloads ==
    { Dict(<<"failure">>), Dict(<<FailureMarker>>), Str(<<"event", FailureMarker>>) }

\* the remote workflow was executed by the last retrieval
RemoteExecuted == rag.called /\ rag.env.client_ok /\ rag.env.queue_env # ""

\* C5: query returns None when the remote call raises WorkflowFailureError or any
\* other exception and when it returns a failure-shaped payload; it returns normal
\* text unchanged.
C5_QueryNormalizesFailures ==
    RemoteExecuted =>
      LET remote == rag.env.remote IN
      /\ remote.kind = "raise" => rag.query = Return(None)
      /\ (remote.kind = "return" /\ remote.val \in FailurePayloads)
            => rag.query = Return(None)
      /\ (remote.kind = "return" /\ \E a \in Answers : remote.val = Str(a))
            => rag.query = Return(remote.val)

C5_Witness ==
    /\ RemoteExecuted
    /\ rag.env.remote = Return(Str(<<"event", FailureMarker>>))
    /\ rag.query = Return(None)
    /\ state.last_answer = Str(<<"NONE">>)

\* C6: query never raises to its caller, whichever step of the retrieval fails
\* (the client, the queue name, the remote workflow), and the tool then yields
\* the 'NONE' marker instead of an error.
C6_RetrievalFailureRecovered ==
    rag.called =>
      /\ rag.query.kind = "return"
      /\ rag.tool.kind = "return"
      /\ (~rag.env.client_ok \/ rag.env.queue_env = "" \/ rag.env.remote.kind = "raise")
            => rag.tool = Return(Str(<<"NONE">>))

\* C7: after every successful generation the answer is passed to the Answer
\* Validator before the flow reaches its terminal state; only the 'no answer'
\* sentinel is returned unvalidated.
C7_AnswerValidatedBeforeStop ==
    (fpc = "done" /\ GenerationPasses > 0 /\ state.last_answer.val # <<"NONE">>)
    => \E i \in DOMAIN calls : calls[i].op = "check_answer_validity"

\* C8: the flow stops with the last answer only when the validator judges it
\* relevant, it is the 'no answer' sentinel, or the retry budget is exhausted;
\* otherwise it rewrites the query and generates again.
C8_StopsOnlyWhenJustified ==
    (fpc = "done" /\ GenerationPasses > 0)
    => \/ relative
       \/ state.last_answer.val = <<"NONE">>
       \/ state.retry_count >= flow.max_retry_count

\* C9 as claimed: for every max_retry_count >= 0 the number of generation passes
\* never exceeds max_retry_count, and retry_count <= max_retry_count at the end.
C9_PassesWithinBudget ==
    /\ GenerationPasses <= flow.max_retry_count
    /\ FlowEnded => state.retry_count <= flow.max_retry_count

\* C9 amended: for every max_retry_count >= 1 the number of generation passes
\* never exceeds max_retry_count, and retry_count <= max_retry_count at the end.
C9_PassesWithinPositiveBudget ==
    flow.max_retry_count >= 1 =>
      /\ GenerationPasses <= flow.max_retry_count
      /\ state.retry_count <= flow.max_retry_count

C9_Witness ==
    /\ fpc = "done"
    /\ flow.max_retry_count = 1
    /\ GenerationPasses = 1
    /\ state.retry_count = 1

\* C10: every run of the flow terminates: it reaches the stop handler or raises,
\* for every combination of classifier verdicts and every max_retry_count.
C10_FlowTerminates == <>FlowEnded

C10_Witness ==
    /\ fpc = "done"
    /\ Len(GateCalls) = 3
    /\ GenerationPasses = 1
    /\ output = state.last_answer
    /\ flow.max_retry_count = 0


(***************************************************************************)
(* The audit record of one invocation.                                     *)
(***************************************************************************)
Terminal == {"completed", "completed_no_answer", "failed"}

\* the activity returned or raised
Ended == apc \in {"returned", "raised"}

\* the error_occurred step of the except block
ErrorStepData == [errorType |-> error.type, errorMessage |-> error.message]

IsErrorStepCall(e) ==
    /\ e.op = "update_workflow_step"
    /\ e.id = ObjectIdStr(workflow_id)
    /\ e.stepName = "error_occurred"
    /\ e.data = ErrorStepData
    /\ e.status = "failed"

IsErrorResponseCall(e) ==
    /\ e.op = "update_response"
    /\ e.id = ObjectIdStr(workflow_id)
    /\ e.data = None
    /\ e.status = "failed"

\* C11 as stated: when the activity raised after the audit record was created, the
\* record's last step is 'error_occurred' with the error's type and message, its
\* status is 'failed', and the activity re-raised that error instead of returning.
C11_ErrorRecordedAndReraised ==
    (apc = "raised" /\ workflow_id # 0) =>
        /\ result = Raise(error.type)
        /\ Doc.steps # <<>>
        /\ Doc.steps[Len(Doc.steps)].stepName = "error_occurred"
        /\ Doc.steps[Len(Doc.steps)].data = ErrorStepData
        /\ Doc.status = "failed"

\* C11 amended: when the activity raised after the audit record was created, its
\* last two calls on the recorder are update_workflow_step('error_occurred', error
\* type and message, status 'failed') and update_response(None, 'failed'), and it
\* re-raised that error instead of returning; the record's last step is that step
\* when the store applied the first write, and its status is 'failed' when the
\* store applied either.
C11_ErrorCallsIssuedAndReraised ==
    (apc = "raised" /\ workflow_id # 0) =>
        /\ result = Raise(error.type)
        /\ Len(audit) >= 3
        /\ IsErrorStepCall(audit[Len(audit) - 1])
        /\ IsErrorResponseCall(audit[Len(audit)])
        /\ audit[Len(audit) - 1].ret =>
              /\ Doc.steps # <<>>
              /\ Doc.steps[Len(Doc.steps)].stepName = "error_occurred"
              /\ Doc.steps[Len(Doc.steps)].data = ErrorStepData
        /\ (audit[Len(audit) - 1].ret \/ audit[Len(audit)].ret) => Doc.status = "failed"

\* RedisMemory cannot be built after the record was created: the ValueError is
\* recorded and re-raised
C11_Witness ==
    /\ apc = "raised"
    /\ workflow_id # 0
    /\ error.type = "ValueError"
    /\ result = Raise("ValueError")
    /\ audit[Len(audit) - 1].ret
    /\ audit[Len(audit)].ret
    /\ Doc.status = "failed"
    /\ Doc.steps[Len(Doc.steps)].stepName = "error_occurred"


\* a write of the activity that carries a terminal status and that the store applied
AppliedTerminalWrite(e) ==
    /\ e.status \in Terminal
    /\ e.op \in {"update_workflow_step", "update_response"}
    /\ e.ret

\* C12 as stated: when the activity has returned or raised after
\* create_workflow_state succeeded, the record's status is completed,
\* completed_no_answer or failed; there is no such record only when
\* create_workflow_state itself failed.
C12_RecordFinalized ==
    Ended =>
        IF workflow_id # 0
        THEN Doc.status \in Terminal
        ELSE collection = <<>> /\ audit[1].ret.kind = "raise"

\* C12 amended: when the activity has returned or raised after
\* create_workflow_state succeeded, the record's status is terminal exactly when the
\* store applied one of the activity's writes that carry a terminal status, and is
\* then the status of the activity's last call; otherwise it is still 'running'.
\* There is no record when create_workflow_state itself failed.
C12_RecordFinalizedWhenWritten ==
    Ended =>
        IF workflow_id # 0
        THEN /\ Doc.status \in Terminal <=>
                    \E i \in DOMAIN audit : AppliedTerminalWrite(audit[i])
             /\ Doc.status \in Terminal => Doc.status = audit[Len(audit)].status
             /\ Doc.status \notin Terminal => Doc.status = "running"
        ELSE collection = <<>> /\ audit[1].ret.kind = "raise"

\* the activity returned an answer and the store applied the final update_response
C12_Witness ==
    /\ apc = "returned"
    /\ workflow_id # 0
    /\ audit[Len(audit)].op = "update_response"
    /\ audit[Len(audit)].ret
    /\ Doc.status = "completed"
    /\ Doc.response = [message |-> final_answer]

\* C13: every write on an audit record keeps a terminal status as it is: a record
\* that is completed, completed_no_answer or failed never becomes running again nor
\* takes another terminal status, and a status is always one of the four.
C13_StatusMovesForward ==
    [][ /\ \A i \in DOMAIN collection :
             collection[i].status \in Terminal =>
                 collection'[i].status = collection[i].status
        /\ \A i \in DOMAIN collection' :
             collection'[i].status \in Terminal \cup {"running"} ]_vars

\* the except block wrote 'failed' twice: the second write met a terminal record
C13_Witness ==
    /\ apc = "raised"
    /\ workflow_id # 0
    /\ audit[Len(audit) - 1].op = "update_workflow_step"
    /\ audit[Len(audit) - 1].ret
    /\ audit[Len(audit)].op = "update_response"
    /\ audit[Len(audit)].ret
    /\ Doc.status = "failed"
    /\ Doc.response = [message |-> None]


\* the audit step of each gating classifier
GateStepName ==
    [ classify_message |-> "local_model_classification",
      classify_question_lm |-> "question_classification",
      classify_message_lm |-> "rag_classification" ]
GateStepNames == { GateStepName[op] : op \in DOMAIN GateStepName }

\* the gating classifiers that returned so far, in call order
GateResults == SelectSeq(GateCalls, LAMBDA c : c.result # "raise")

\* a step entry or a logged update_workflow_step call carries the result (and the
\* reasoning, and the score of the RAG scorer) of the classifier call c
CarriesGateResult(step_name, data, c) ==
    /\ step_name = GateStepName[c.op]
    /\ data.result = c.result
    /\ data.query = payload.query
    /\ c.op = "classify_question_lm" =>
           data.reasoning = classify_question_lm(c.raw, TRUE).reasoning
    /\ c.op = "classify_message_lm" =>
           /\ data.reasoning = classify_message_lm(c.raw, TRUE, RagThresholdTenths).reasoning
           /\ data.score = classify_message_lm(c.raw, TRUE, RagThresholdTenths).score

\* the gate steps of the activity's audit record
GateSteps ==
    IF workflow_id = 0 THEN <<>>
    ELSE SelectSeq(Doc.steps, LAMBDA st : st.stepName \in GateStepNames)

\* the update_workflow_step calls made for the gate steps
GateStepCalls ==
    SelectSeq(audit, LAMBDA e : e.op = "update_workflow_step"
                                    /\ e.stepName \in GateStepNames)

\* the cascade is running (a classifier is about to be invoked) or has just ended
\* (route_start is about to decide, or an error is about to leave the flow)
InCascade ==
    /\ apc = "await_flow"
    /\ fpc \in {"detect_question", "detect_question_lm", "detect_question_rag",
                "route_start", "raised"}

\* C14 as stated: at every moment of the cascade (so before the next classifier is
\* invoked, and when route_start decides) the audit record holds one step per
\* classifier that has returned, in cascade order, with its result, reasoning and
\* score: a run that stops at stage k has the steps of stages 1..k and no other.
C14_GateStepsRecorded ==
    InCascade =>
        /\ Len(GateSteps) = Len(GateResults)
        /\ \A i \in DOMAIN GateSteps :
             CarriesGateResult(GateSteps[i].stepName, GateSteps[i].data, GateResults[i])

\* C14 amended: at every moment of the cascade the flow has called
\* update_workflow_step once per classifier that has returned, in cascade order,
\* with its result, reasoning and score; the audit record holds the steps of exactly
\* those calls that the store applied.
C14_GateStepCallsIssued ==
    InCascade =>
        /\ Len(GateStepCalls) = Len(GateResults)
        /\ \A i \in DOMAIN GateStepCalls :
             /\ CarriesGateResult(GateStepCalls[i].stepName, GateStepCalls[i].data,
                                  GateResults[i])
             /\ GateStepCalls[i].status = "running"
        /\ LET applied == SelectSeq(GateStepCalls, LAMBDA e : e.ret) IN
           /\ Len(GateSteps) = Len(applied)
           /\ \A i \in DOMAIN applied :
                /\ GateSteps[i].stepName = applied[i].stepName
                /\ GateSteps[i].data = applied[i].data

\* the cascade stopped at its second stage and the record holds stages 1 and 2
C14_Witness ==
    /\ fpc = "route_start"
    /\ state.state = "stop"
    /\ Len(GateResults) = 2
    /\ GateResults[2].result = "False"
    /\ Len(GateSteps) = 2
    /\ GateSteps[1].stepName = "local_model_classification"
    /\ GateSteps[2].stepName = "question_classification"
    /\ GateSteps[2].data.result = "False"


(***************************************************************************)
(* MongoPersistence called by any client.                                  *)
(***************************************************************************)
\* the call just made on MongoPersistence
LastCall == audit[Len(audit)]

\* the step that made the log one call longer
CallMade == Len(audit') = Len(audit) + 1

\* the call e was made on the k-th document of the collection
OnDocument(e, k) == ObjectId(e.id) = Return(k)

\* the update_workflow_step calls on document k that returned True, in call order
AppliedSteps(k) ==
    SelectSeq(audit, LAMBDA e : e.op = "update_workflow_step" /\ e.ret /\ OnDocument(e, k))

\* C15: the steps of every audit record are the successful update_workflow_step
\* calls on that record in call order, one entry per call with its name and data,
\* and currentStep is the name of the last of them ('initialized' when there is none).
C15_StepsAreSuccessfulCallsInOrder ==
    \A k \in DOMAIN collection :
        LET steps == collection[k].steps
            applied == AppliedSteps(k) IN
        /\ Len(steps) = Len(applied)
        /\ \A i \in DOMAIN steps :
             /\ steps[i].stepName = applied[i].stepName
             /\ steps[i].data = applied[i].data
        /\ \A i \in DOMAIN steps : i > 1 => steps[i - 1].timestamp < steps[i].timestamp
        /\ collection[k].currentStep =
               IF steps = <<>> THEN "initialized" ELSE applied[Len(applied)].stepName

\* two steps with different names were appended to a record, in this order
C15_Witness ==
    \E k \in DOMAIN collection :
        /\ Len(collection[k].steps) = 2
        /\ collection[k].steps[1].stepName = "initialization"
        /\ collection[k].steps[2].stepName = "error_occurred"
        /\ collection[k].currentStep = "error_occurred"


\* C16: a successful update_workflow_step keeps the entries the record already had
\* as they were and in their order, adds one entry (name, timestamp, data) at the
\* end, sets currentStep to the step name, status to the given status and updatedAt
\* to the time of the call, and changes nothing else in the collection.
C16_UpdateStepIsAdditive ==
    [][ (CallMade /\ LastCall'.op = "update_workflow_step" /\ LastCall'.ret) =>
            \E k \in DOMAIN collection :
                LET before == collection[k]
                    after == collection'[k] IN
                /\ OnDocument(LastCall', k)
                /\ Len(after.steps) = Len(before.steps) + 1
                /\ SubSeq(after.steps, 1, Len(before.steps)) = before.steps
                /\ after.steps[Len(after.steps)] =
                       [stepName |-> LastCall'.stepName, timestamp |-> Now(audit),
                        data |-> LastCall'.data]
                /\ after.currentStep = LastCall'.stepName
                /\ after.status = LastCall'.status
                /\ after.updatedAt = Now(audit)
                /\ [after EXCEPT !.steps = before.steps,
                                 !.currentStep = before.currentStep,
                                 !.status = before.status,
                                 !.updatedAt = before.updatedAt] = before
                /\ Len(collection') = Len(collection)
                /\ \A j \in DOMAIN collection : j # k => collection'[j] = collection[j]
      ]_vars

\* a second step was appended to a record, with status 'failed'
C16_Witness ==
    /\ audit # <<>>
    /\ LastCall.op = "update_workflow_step"
    /\ LastCall.ret
    /\ LastCall.status = "failed"
    /\ \E k \in DOMAIN collection :
         /\ OnDocument(LastCall, k)
         /\ Len(collection[k].steps) = 2
         /\ collection[k].steps[1].stepName = "initialization"
         /\ collection[k].status = "failed"
         /\ collection[k].updatedAt = Len(audit) - 1

\* C17: a create_workflow_state that returns has added one record with status
\* 'running', currentStep 'initialized', no steps and no response, holding the
\* community id, query, chat id and skip flag of the call, has left the other
\* records alone, and has returned a text that identifies the new record.
C17_CreateWorkflowState ==
    [][ (CallMade /\ LastCall'.op = "create_workflow_state"
                  /\ LastCall'.ret.kind = "return") =>
            LET doc == collection'[Len(collection')]
                request == LastCall'.data
                id == LastCall'.ret.val IN
            /\ collection' = Append(collection, doc)
            /\ doc.status = "running"
            /\ doc.currentStep = "initialized"
            /\ doc.steps = <<>>
            /\ doc.response = None
            /\ doc.communityId = request.community_id
            /\ doc.question.message = request.query
            /\ doc.chatId = request.chat_id
            /\ doc.enableAnswerSkipping = request.enable_answer_skipping
            /\ doc.createdAt = Now(audit)
            /\ doc.updatedAt = Now(audit)
            /\ IsStr(id)
            /\ ObjectId(id) = Return(Len(collection'))
            /\ get_workflow_state(collection', TRUE, id).val = doc
      ]_vars

\* a second record was created, with the skip flag set, and its identifier returned
C17_Witness ==
    /\ audit # <<>>
    /\ LastCall.op = "create_workflow_state"
    /\ LastCall.ret.kind = "return"
    /\ LastCall.data.enable_answer_skipping
    /\ Len(collection) = 2
    /\ LastCall.ret.val = ObjectIdStr(2)
    /\ collection[2].enableAnswerSkipping
    /\ collection[2].status = "running"

\* C18: when create_workflow_state raised, the activity made no other call on the
\* recorder, read no memory, ran no classifier and no generation, wrote no memory,
\* and ends by raising the same error.
C18_CreateFailureIsFatal ==
    (audit # <<>> /\ audit[1].ret.kind = "raise") =>
        /\ Len(audit) = 1
        /\ collection = <<>>
        /\ workflow_id = 0
        /\ calls = <<>>
        /\ memory = FALSE
        /\ chat_history = None
        /\ fpc = "idle"
        /\ apc \in {"except", "raised"}
        /\ error.type = audit[1].ret.exc
        /\ apc = "raised" => result = Raise(audit[1].ret.exc)

\* the store was unavailable at create_workflow_state and the activity raised
C18_Witness ==
    /\ apc = "raised"
    /\ audit # <<>>
    /\ audit[1].ret = Raise("ConnectionFailure")
    /\ result = Raise("ConnectionFailure")
    /\ payload.chat_id # ""

\* the identifier of a call is malformed: ObjectId raises on it
Malformed(wid) == ObjectId(wid).kind = "raise"

\* C19: update_workflow_step, update_response and get_workflow_state, called with
\* a malformed identifier or while the store is unavailable, return False, False
\* and None (they do not raise) and leave the collection as it was.
C19_DegradeWithoutRaising ==
    [][ (CallMade /\ (Malformed(LastCall'.id) \/ ~storeUp)) =>
            /\ LastCall'.op \in {"update_workflow_step", "update_response"} =>
                   LastCall'.ret = FALSE /\ collection' = collection
            /\ LastCall'.op = "get_workflow_state" =>
                   LastCall'.ret = None /\ collection' = collection
      ]_vars

\* an append with a malformed identifier on an available store holding a record
C19_Witness ==
    /\ audit # <<>>
    /\ LastCall.op = "update_workflow_step"
    /\ Malformed(LastCall.id)
    /\ LastCall.ret = FALSE
    /\ storeUp
    /\ flips = 0
    /\ collection # <<>>

(***************************************************************************)
(* The gate stops the query.                                               *)
(***************************************************************************)
\* with answer skipping enabled the local classifier answered "statement"
LocalSaysStatement ==
    /\ payload.enable_answer_skipping
    /\ calls # <<>>
    /\ calls[1].op = "classify_message"
    /\ calls[1].result = "False"

\* the calls that follow the local classifier: the two language-model classifiers,
\* the history classifier, generation and retrieval
AfterLocalOps ==
    {"classify_question_lm", "classify_message_lm", "classify_query",
     "execute_workflow"} \cup GenerationOps

\* the update_response call of a run that has no answer
IsNoAnswerResponseCall(e) ==
    /\ e.op = "update_response"
    /\ e.id = ObjectIdStr(workflow_id)
    /\ e.data = Str(<<"No", "answer", "generated">>)
    /\ e.status = "completed_no_answer"

\* C21 as stated: with answer skipping enabled, once the local classifier says
\* "statement" no language-model classifier, generation or retrieval call is made,
\* the activity returns None, and the audit record ends with status
\* 'completed_no_answer'.
C21_StatementSkipsEverything ==
    LocalSaysStatement =>
        /\ \A i \in DOMAIN calls : calls[i].op \notin AfterLocalOps
        /\ apc \notin {"except", "except_response", "raised"}
        /\ apc = "returned" =>
              /\ result = Return(None)
              /\ Doc.status = "completed_no_answer"

\* C21 amended: with answer skipping enabled, once the local classifier says
\* "statement" no language-model classifier, generation or retrieval call is made,
\* the activity does not fail and returns None, and its last call on the recorder is
\* update_response("No answer generated", 'completed_no_answer'); the record's
\* status is 'completed_no_answer' when the store applied that call and is still
\* 'running' when it did not.
C21_StatementSkipsEverythingWhenWritten ==
    LocalSaysStatement =>
        /\ \A i \in DOMAIN calls : calls[i].op \notin AfterLocalOps
        /\ apc \notin {"except", "except_response", "raised"}
        /\ apc = "returned" =>
              /\ result = Return(None)
              /\ IsNoAnswerResponseCall(audit[Len(audit)])
              /\ Doc.status =
                    IF audit[Len(audit)].ret THEN "completed_no_answer" ELSE "running"

\* a statement was skipped and the record was finalized
C21_Witness ==
    /\ apc = "returned"
    /\ LocalSaysStatement
    /\ Len(calls) = 1
    /\ result = Return(None)
    /\ IsNoAnswerResponseCall(audit[Len(audit)])
    /\ audit[Len(audit)].ret
    /\ Doc.status = "completed_no_answer"

\* the activity returned after the gate stopped the query
GateStoppedRun == apc = "returned" /\ state.state = "stop"

\* the update_workflow_step calls made so far, and those the store applied
StepCallsIssued == SelectSeq(audit, LAMBDA e : e.op = "update_workflow_step")
StepCallsApplied == SelectSeq(StepCallsIssued, LAMBDA e : e.ret)

\* the step names of a run that the gate stops: the activity's own steps around the
\* steps of the classifiers that returned
GateStoppedStepNames ==
    << "initialization",
       IF payload.chat_id # "" THEN "chat_history_retrieval" ELSE "no_chat_history",
       "flow_initialization", "flow_execution_start" >>
    \o [ i \in DOMAIN GateResults |-> GateStepName[GateResults[i].op] ]
    \o << "flow_execution_complete", "answer_processing" >>
    \o (IF memory THEN << "memory_update" >> ELSE << >>)

\* C22 as stated: when the gate stopped the query, the steps of the audit record are
\* exactly the gate steps, one per classifier that returned, in invocation order, and
\* the record's status is 'completed_no_answer'.
C22_OnlyGateSteps ==
    GateStoppedRun =>
        /\ Len(Doc.steps) = Len(GateResults)
        /\ \A i \in DOMAIN Doc.steps :
             CarriesGateResult(Doc.steps[i].stepName, Doc.steps[i].data, GateResults[i])
        /\ Doc.status = "completed_no_answer"

\* C22 amended: when the gate stopped the query, the update_workflow_step calls of
\* the run are the activity's own steps with, between flow_execution_start and
\* flow_execution_complete, exactly the gate steps, one per classifier that
\* returned, in invocation order; the steps of the record are those of the calls the
\* store applied, in call order; the last call is update_response with status
\* 'completed_no_answer', which is the record's status when the store applied it.
C22_GateStepsBetweenActivitySteps ==
    GateStoppedRun =>
        /\ [ i \in DOMAIN StepCallsIssued |-> StepCallsIssued[i].stepName ]
              = GateStoppedStepNames
        /\ \A i \in DOMAIN GateResults :
             CarriesGateResult(StepCallsIssued[4 + i].stepName,
                               StepCallsIssued[4 + i].data, GateResults[i])
        /\ Len(Doc.steps) = Len(StepCallsApplied)
        /\ \A i \in DOMAIN Doc.steps :
             /\ Doc.steps[i].stepName = StepCallsApplied[i].stepName
             /\ Doc.steps[i].data = StepCallsApplied[i].data
        /\ IsNoAnswerResponseCall(audit[Len(audit)])
        /\ audit[Len(audit)].ret => Doc.status = "completed_no_answer"

\* the gate stopped at its third stage, in a session with memory, and every write
\* was applied
C22_Witness ==
    /\ GateStoppedRun
    /\ Len(GateResults) = 3
    /\ memory
    /\ Len(Doc.steps) = 10
    /\ Doc.steps[5].stepName = "local_model_classification"
    /\ Doc.steps[7].stepName = "rag_classification"
    /\ Doc.steps[10].stepName = "memory_update"
    /\ Doc.status = "completed_no_answer"

(***************************************************************************)
(* The sanitization of the final answer.                                   *)
(***************************************************************************)
\* final_answer as lines 118-123 set it, before the sanitization
OriginalAnswer == AnswerOf(crew_output, payload.enable_answer_skipping)

\* the answer holds the words "encountered an error", in any letter case
MentionsError(answer) ==
    /\ IsStr(answer)
    /\ \E i \in 1..(Len(answer.val) - 2) :
         /\ Lower(answer.val[i]) = "encountered"
         /\ Lower(answer.val[i + 1]) = "an"
         /\ Lower(answer.val[i + 2]) = "error"

\* an answer that is a text and not the "NONE" marker
ProperAnswer(answer) == Truthy(answer) /\ answer # Str(<<"NONE">>)

ErrorHandlingCalls ==
    SelectSeq(audit, LAMBDA e : e.op = "update_workflow_step"
                                    /\ e.stepName = "error_handling")

\* the conversation blob is as it was found, or extended by the entry of answer
MemoryHoldsAtMost(answer) ==
    \E h \in Histories :
        redis \in {h, append_text(h, ChatEntry(payload.query, answer))}

\* the final update_response call carries answer; the record's response message
\* is answer when the store applied the call, and there is none otherwise
ResponseIs(answer) ==
    /\ audit[Len(audit)].op = "update_response"
    /\ audit[Len(audit)].data = answer
    /\ audit[Len(audit)].status = "completed"
    /\ Doc.response = IF audit[Len(audit)].ret THEN [message |-> answer] ELSE None

\* C23: when the activity returns and the final answer held "encountered an error"
\* (in any letter case), the value returned, the entry appended to memory (if one
\* was appended) and the response message stored in the record (if one was stored)
\* are the apology, and the error_handling step was written once; an answer without
\* the phrase is returned, appended and stored as it was, with no error_handling
\* step.
C23_ErrorPhraseSanitizedOnce ==
    apc = "returned" =>
        IF MentionsError(OriginalAnswer)
        THEN /\ result = Return(Str(FallbackAnswer))
             /\ MemoryHoldsAtMost(Str(FallbackAnswer))
             /\ ResponseIs(Str(FallbackAnswer))
             /\ Len(ErrorHandlingCalls) = 1
             /\ ErrorHandlingCalls[1].data.originalAnswer = OriginalAnswer
        ELSE /\ final_answer = OriginalAnswer
             /\ Len(ErrorHandlingCalls) = 0
             /\ ProperAnswer(OriginalAnswer) =>
                   /\ result = Return(OriginalAnswer)
                   /\ MemoryHoldsAtMost(OriginalAnswer)
                   /\ ResponseIs(OriginalAnswer)

\* the history strategy answered "I Encountered an ERROR": the apology was returned,
\* appended to the memory of the session and stored in the record
C23_Witness ==
    /\ apc = "returned"
    /\ crew_output = CrewOutput(<<"I", "Encountered", "an", "ERROR">>)
    /\ result = Return(Str(FallbackAnswer))
    /\ memory
    /\ redis = append_text(chat_history, ChatEntry(payload.query, Str(FallbackAnswer)))
    /\ Len(ErrorHandlingCalls) = 1
    /\ Doc.response = [message |-> Str(FallbackAnswer)]
    /\ Doc.status = "completed"

(***************************************************************************)
(* The choice of the strategy.                                             *)
(***************************************************************************)
\* detect_question_type has chosen a strategy, which has not run yet
StrategySelected == fpc \in {"do_rag_query", "do_history_query"}

\* the calls of the history classifier, in order
HistoryCalls == SelectSeq(calls, LAMBDA c : c.op = "classify_query")

\* the flow was given a recorder and a record
FlowRecords == flow.mongo_persistence /\ flow.workflow_id # 0

\* a step entry or a logged update_workflow_step call carries the outcome of the
\* history classifier call c
CarriesHistoryOutcome(step_name, data, c) ==
    /\ step_name = "history_query_classification"
    /\ data.result = (c.result = "True")
    /\ data.query = state.user_query
    /\ data.hasChatHistory

\* C24 as stated: the history strategy is selected exactly when the conversational
\* memory is non-empty and the history classifier answered yes, else the retrieval
\* strategy; the history classifier is called only with non-empty memory; when it
\* was called, its outcome is the last step of the audit record when the strategy
\* is about to run.
C24_HistoryStrategyIffMemoryAndYes ==
    /\ HistoryCalls # <<>> => Truthy(state.chat_history) /\ Len(HistoryCalls) = 1
    /\ StrategySelected =>
         /\ fpc = "do_history_query" <=>
               /\ Truthy(state.chat_history)
               /\ HistoryCalls # <<>>
               /\ HistoryCalls[1].result = "True"
         /\ Truthy(state.chat_history) =>
               /\ HistoryCalls # <<>>
               /\ workflow_id # 0
               /\ Doc.steps # <<>>
               /\ CarriesHistoryOutcome(Doc.steps[Len(Doc.steps)].stepName,
                                        Doc.steps[Len(Doc.steps)].data, HistoryCalls[1])

\* C24 amended: the same selection rule; when the history classifier was called and
\* the flow has a recorder and a record, the flow's last call on the recorder when
\* the strategy is about to run is update_workflow_step with the classifier's
\* outcome, and the outcome is the last step of the record when the store applied
\* that call.
C24_HistoryStrategyAndOutcomeIssued ==
    /\ HistoryCalls # <<>> => Truthy(state.chat_history) /\ Len(HistoryCalls) = 1
    /\ StrategySelected =>
         /\ fpc = "do_history_query" <=>
               /\ Truthy(state.chat_history)
               /\ HistoryCalls # <<>>
               /\ HistoryCalls[1].result = "True"
         /\ Truthy(state.chat_history) =>
               /\ HistoryCalls # <<>>
               /\ FlowRecords =>
                     /\ audit[Len(audit)].op = "update_workflow_step"
                     /\ CarriesHistoryOutcome(audit[Len(audit)].stepName,
                                              audit[Len(audit)].data, HistoryCalls[1])
                     /\ audit[Len(audit)].ret =>
                           CarriesHistoryOutcome(Doc.steps[Len(Doc.steps)].stepName,
                                                 Doc.steps[Len(Doc.steps)].data,
                                                 HistoryCalls[1])

\* with a conversation in memory the classifier answered yes: the history strategy
\* is about to run and the record's last step holds the outcome
C24_Witness ==
    /\ fpc = "do_history_query"
    /\ Truthy(state.chat_history)
    /\ HistoryCalls[1].result = "True"
    /\ FlowRecords
    /\ audit[Len(audit)].ret
    /\ Doc.steps[Len(Doc.steps)].stepName = "history_query_classification"
    /\ Doc.steps[Len(Doc.steps)].data.result = TRUE

(***************************************************************************)
(* The order of the stages of one invocation.                              *)
(***************************************************************************)
\* the stage the invocation is in: 1 audit-record creation, 2 memory load (with the
\* steps around it, up to the start of the flow), 3 gate, 4 route, 5 generate,
\* 6 finalize (the end of the flow, the handling of the answer or of the error)
StageOf ==
    CASE apc = "create" -> 1
      [] apc \in {"initialization", "load_memory", "chat_history_retrieval",
                  "no_chat_history", "flow_initialization", "flow_execution_start",
                  "kickoff"} -> 2
      [] apc = "await_flow" /\ fpc \in {"detect_question", "detect_question_lm",
                                        "detect_question_rag"} -> 3
      [] apc = "await_flow" /\ fpc \in {"route_start", "detect_question_type"} -> 4
      [] apc = "await_flow" /\ fpc \in {"do_rag_query", "do_history_query"} -> 5
      [] OTHER -> 6

\* once the gate has decided 'stop', no strategy is chosen or run
NoStrategyAfterStop ==
    state.state = "stop" =>
        /\ fpc \notin {"detect_question_type", "do_rag_query", "do_history_query"}
        /\ \A i \in DOMAIN calls :
             calls[i].op \notin {"classify_query", "execute_workflow"} \cup GenerationOps

\* C25: every step of an invocation stays in its stage or moves to a later one, in
\* the order creation, memory load, gate, route, generate, finalize (no step goes
\* back to an earlier stage, so a stage starts only when the one before it is over);
\* and after the gate decided 'stop' no routing to a strategy and no generation
\* takes place.
C25_StagesInOrder ==
    [][ /\ StageOf' >= StageOf
        /\ NoStrategyAfterStop' ]_vars

\* a run that went through every stage: three gate calls, the choice of the
\* strategy, one generation pass, the final write
C25_Witness ==
    /\ apc = "returned"
    /\ Len(GateCalls) = 3
    /\ HistoryCalls # <<>>
    /\ GenerationPasses = 1
    /\ audit[Len(audit)].op = "update_response"

(***************************************************************************)
(* The retries of a retrieval.                                             *)
(***************************************************************************)
\* the execute_workflow calls of the invocation
ExecuteWorkflowCalls == SelectSeq(calls, LAMBDA c : c.op = "execute_workflow")

\* the remote retrieval call was made and failed: it raised, or it returned a
\* failure-shaped payload
RetrievalFailed ==
    /\ RemoteExecuted
    /\ \/ rag.env.remote.kind = "raise"
       \/ rag.env.remote.val \in FailurePayloads

ActivityFailing == apc \in {"except", "except_response", "raised"} \/ fpc = "raised"

Thresholds == { 0 - 1, 0, 3, 5, 7, 10, 11 }

\* raw responses of the RAG-sensitivity model, with the two ends of the range
UnitScoreResponses == ScoreResponses \cup { <<"0">>, <<"1">>, <<"0.5">>, <<"1.5">> }

\* ClassifyQuestion.__init__: `if not (0 <= rag_threshold <= 1): raise ValueError`
ClassifyQuestion(rag_threshold, enable_reasoning) ==
    IF ~(0 <= rag_threshold /\ rag_threshold <= 10) THEN Raise("ValueError")
    ELSE Return([built |-> TRUE, rag_threshold |-> rag_threshold,
                 enable_reasoning |-> enable_reasoning])

\* what a call on the object did
Verdict(op, response, threshold, ret) ==
    [op |-> op, response |-> response, threshold |-> threshold, ret |-> ret]

\* a classifier result as its caller gets it: the result object, or the ValueError
Outcome(res) == IF res.result = "raise" THEN Raise("ValueError") ELSE Return(res)

InitClassify ==
    /\ payload \in [community_id : {"c1"}, query : {<<"q1">>},
                    enable_answer_skipping : {FALSE}, chat_id : {""}]
    /\ apc = "none"
    /\ workflow_id = 0
    /\ collection = <<>>
    /\ audit = <<>>
    /\ storeUp = TRUE
    /\ flips = 0
    /\ redis = None
    /\ memory = FALSE
    /\ flow = NoFlow
    /\ state = AgenticFlowState
    /\ fpc = "idle"
    /\ output = None
    /\ calls = <<>>
    /\ rag = NoRetrieval
    /\ relative = TRUE
    /\ crew_output = None
    /\ final_answer = None
    /\ chat_history = None
    /\ result = Return(None)
    /\ error = NoError
    /\ UnitsIdle

\* what a call on a ClassifyQuestion or a RedisMemory leaves alone
UnitFrame ==
    /\ UNCHANGED << payload, redis, calls, error, collection, audit >>
    /\ UNCHANGED envVars
    /\ UNCHANGED activityVars
    /\ UNCHANGED flowVars

\* ClassifyQuestion(rag_threshold=..., enable_reasoning=...)
Construct ==
    /\ \E rag_threshold \in Thresholds, enable_reasoning \in BOOLEAN :
         LET made == ClassifyQuestion(rag_threshold, enable_reasoning) IN
         /\ classifier' = IF made.kind = "return" THEN made.val ELSE classifier
         /\ verdict' = Verdict("ClassifyQuestion", <<>>, rag_threshold,
                               IF made.kind = "return" THEN Return(None) ELSE made)
    /\ UNCHANGED << rkey, clock, rlog, written_at, clients, wf >>
    /\ UnitFrame

CallClassifyMessage ==
    /\ classifier.built
    /\ \E label \in Labels :
         verdict' = Verdict("classify_message", <<label>>, classifier.rag_threshold,
                            Return(QResult(classify_message(label), <<>>)))
    /\ UNCHANGED << classifier, rkey, clock, rlog, written_at, clients, wf >>
    /\ UnitFrame

CallClassifyQuestionLm ==
    /\ classifier.built
    /\ \E response \in QuestionResponses :
         verdict' = Verdict("classify_question_lm", response, classifier.rag_threshold,
                            Outcome(classify_question_lm(response,
                                                         classifier.enable_reasoning)))
    /\ UNCHANGED << classifier, rkey, clock, rlog, written_at, clients, wf >>
    /\ UnitFrame

CallClassifyMessageLm ==
    /\ classifier.built
    /\ \E response \in UnitScoreResponses :
         verdict' = Verdict("classify_message_lm", response, classifier.rag_threshold,
                            Outcome(classify_message_lm(response,
                                                        classifier.enable_reasoning,
                                                        classifier.rag_threshold)))
    /\ UNCHANGED << classifier, rkey, clock, rlog, written_at, clients, wf >>
    /\ UnitFrame

ClassifyNext ==
    \/ Construct
    \/ CallClassifyMessage
    \/ CallClassifyQuestionLm
    \/ CallClassifyMessageLm

ClassifySpec == InitClassify /\ [][ClassifyNext]_vars

\* C27: every result classify_message_lm returns has result = (score >= rag_threshold)
\* (so True when they are equal) with the score of the response, which lies in [0,1];
\* a response whose score lies outside [0,1] raises ValueError in both modes; and
\* ClassifyQuestion is constructed exactly with thresholds in [0,1], a threshold
\* outside raising ValueError.
C27_ResultIsScoreAtLeastThreshold ==
    /\ classifier.built =>
          0 <= classifier.rag_threshold /\ classifier.rag_threshold <= 10
    /\ verdict.op = "ClassifyQuestion" =>
          (verdict.ret = Raise("ValueError")
              <=> (verdict.threshold < 0 \/ verdict.threshold > 10))
    /\ verdict.op = "classify_message_lm" =>
          /\ verdict.ret.kind = "return" =>
                /\ verdict.ret.val.score = ScoreIn(verdict.response)
                /\ 0 <= verdict.ret.val.score /\ verdict.ret.val.score <= 10
                /\ verdict.ret.val.result \in {"True", "False"}
                /\ verdict.ret.val.result = "True"
                      <=> verdict.ret.val.score >= verdict.threshold
          /\ verdict.response[Len(verdict.response)] \in {"1.5", "-0.2"} =>
                verdict.ret = Raise("ValueError")

\* without reasoning, a score of 0.7 given to an object of threshold 0.7 is True
C27_Witness ==
    /\ classifier.built
    /\ ~classifier.enable_reasoning
    /\ classifier.rag_threshold = 7
    /\ verdict.op = "classify_message_lm"
    /\ verdict.response = <<"0.7">>
    /\ verdict.ret.kind = "return"
    /\ verdict.ret.val.result = "True"
    /\ verdict.ret.val.score = 7

\* the text that carries the boolean answer of the is-question model
AnswerText(response, enable_reasoning) ==
    IF enable_reasoning /\ Contains(response, <<"Reasoning:">>)
                         /\ Contains(response, <<"Result:">>)
    THEN SplitSecond(response, "Result:")
    ELSE response

\* C28: classify_question_lm raises ValueError whenever the boolean answer of the
\* model is not one of true/yes/1/false/no/0, in both modes, a structured
\* response with an unrecognized result token included; it returns no boolean then.
C28_UnrecognizedBooleanRaises ==
    verdict.op = "classify_question_lm" =>
        LET answer == AnswerText(verdict.response, classifier.enable_reasoning) IN
        ~(Len(answer) = 1 /\ Lower(answer[1]) \in RecognizedBooleans)
            => verdict.ret = Raise("ValueError")

(***************************************************************************)
(* RedisMemory used on its own: one client calls append_text, get_text and *)
(* delete_text on one key while time passes.  Redis holds the key with the *)
(* time at which it expires; a call made while Redis does not answer       *)
(* raises inside the method, which returns False or None.                  *)
(***************************************************************************)
MemoryTexts == { <<>>, <<"A">>, <<"B">> }

\* (a faulty variant: a key is still read after its expiry)
GET_ignoring_expiry(key, now) == key.val
\* redis_client.get(key): the value of a key that has not expired
GET(key, now) ==
    IF key.val # None /\ now < key.expire_at THEN key.val ELSE None

\* redis_client.setex(key, seconds, value)
SETEX(now, seconds, value) == [val |-> value, expire_at |-> now + seconds]

\* redis_client.delete(key): the number of keys removed
DEL(key, now) == IF GET(key, now) # None THEN 1 ELSE 0

\* the time a key has left
TTL(key, now) == IF GET(key, now) # None THEN key.expire_at - now ELSE 0

\* RedisMemory.append_text: the key afterwards and the value returned
\* (a faulty variant: a key that is extended keeps the time it had left)
RedisMemory_append_text_keeping_ttl(key, now, up, text) ==
    IF ~up THEN [key |-> key, ret |-> FALSE]
    ELSE [key |-> SETEX(now, IF Truthy(GET(key, now)) THEN TTL(key, now)
                             ELSE TimeoutMinutes,
                        append_text(GET(key, now), text)),
          ret |-> TRUE]
RedisMemory_append_text(key, now, up, text) ==
    IF ~up THEN [key |-> key, ret |-> FALSE]
    ELSE [key |-> SETEX(now, TimeoutMinutes, append_text(GET(key, now), text)),
          ret |-> TRUE]

\* RedisMemory.get_text
RedisMemory_get_text(key, now, up) == IF up THEN GET(key, now) ELSE None

\* (a faulty variant: delete_text reports success whenever Redis answered)
RedisMemory_delete_text_reporting_true(key, now, up) ==
    IF ~up THEN [key |-> key, ret |-> FALSE]
    ELSE [key |-> AbsentKey, ret |-> TRUE]
\* RedisMemory.delete_text: the key afterwards and the value returned
RedisMemory_delete_text(key, now, up) ==
    IF ~up THEN [key |-> key, ret |-> FALSE]
    ELSE [key |-> AbsentKey, ret |-> DEL(key, now) # 0]

\* an entry of the log of calls: ttl is the time the key had left when the call
\* was made (0: the key was absent), up whether Redis answered
MemoryCall(op, text, ret, up) ==
    [op |-> op, text |-> text, ret |-> ret, up |-> up, ttl |-> TTL(rkey, clock)]

InitMemory ==
    /\ payload \in [community_id : {"c1"}, query : {<<"q1">>},
                    enable_answer_skipping : {FALSE}, chat_id : {"chat1"}]
    /\ apc = "none"
    /\ workflow_id = 0
    /\ collection = <<>>
    /\ audit = <<>>
    /\ storeUp = TRUE
    /\ flips = 0
    /\ redis = None
    /\ memory = TRUE
    /\ flow = NoFlow
    /\ state = AgenticFlowState
    /\ fpc = "idle"
    /\ output = None
    /\ calls = <<>>
    /\ rag = NoRetrieval
    /\ relative = TRUE
    /\ crew_output = None
    /\ final_answer = None
    /\ chat_history = None
    /\ result = Return(None)
    /\ error = NoError
    /\ UnitsIdle

AppendText ==
    /\ Len(rlog) < MaxOps
    /\ \E text \in MemoryTexts, up \in BOOLEAN :
         LET call == RedisMemory_append_text(rkey, clock, up, text) IN
         /\ rkey' = call.key
         /\ rlog' = Append(rlog, MemoryCall("append_text", text, call.ret, up))
         /\ written_at' = IF call.ret THEN clock ELSE written_at
    /\ UNCHANGED << classifier, verdict, clock, clients, wf >>
    /\ UnitFrame

GetText ==
    /\ Len(rlog) < MaxOps
    /\ \E up \in BOOLEAN :
         rlog' = Append(rlog, MemoryCall("get_text", <<>>,
                                         RedisMemory_get_text(rkey, clock, up), up))
    /\ UNCHANGED << classifier, verdict, rkey, clock, written_at, clients, wf >>
    /\ UnitFrame

DeleteText ==
    /\ Len(rlog) < MaxOps
    /\ \E up \in BOOLEAN :
         LET call == RedisMemory_delete_text(rkey, clock, up) IN
         /\ rkey' = call.key
         /\ rlog' = Append(rlog, MemoryCall("delete_text", <<>>, call.ret, up))
         /\ written_at' = IF up THEN 0 - 1 ELSE written_at
    /\ UNCHANGED << classifier, verdict, clock, clients, wf >>
    /\ UnitFrame

\* time passes
Tick ==
    /\ clock < MaxTicks * TickMinutes
    /\ clock' = clock + TickMinutes
    /\ UNCHANGED << classifier, verdict, rkey, rlog, written_at, clients, wf >>
    /\ UnitFrame

MemoryNext ==
    \/ AppendText
    \/ GetText
    \/ DeleteText
    \/ Tick

MemorySpec == InitMemory /\ [][MemoryNext]_vars

\* a call of append_text that succeeded; a call of get_text that Redis answered
IsAppended(e) == e.op = "append_text" /\ e.ret
IsRead(e) == e.op = "get_text" /\ e.up

\* C29: when append_text(A) succeeds on an absent key, append_text(B) succeeds next
\* while the key is there, and get_text is answered next while the key is there,
\* get_text returns A followed by B, for all texts A and B; and a get_text that is
\* answered right after a delete_text that was answered returns None.
C29_MemoryRoundTrip ==
    /\ \A i \in 1..(Len(rlog) - 2) :
         ( /\ IsAppended(rlog[i]) /\ rlog[i].ttl = 0
           /\ IsAppended(rlog[i + 1]) /\ rlog[i + 1].ttl > 0
           /\ IsRead(rlog[i + 2]) /\ rlog[i + 2].ttl > 0 )
         => rlog[i + 2].ret = Str(rlog[i].text \o rlog[i + 1].text)
    /\ \A i \in 1..(Len(rlog) - 1) :
         ( /\ rlog[i].op = "delete_text" /\ rlog[i].up
           /\ IsRead(rlog[i + 1]) )
         => rlog[i + 1].ret = None

\* "A" then "B" were appended to an absent key and read back as "A B"
C29_Witness ==
    /\ Len(rlog) = 3
    /\ IsAppended(rlog[1]) /\ rlog[1].text = <<"A">> /\ rlog[1].ttl = 0
    /\ IsAppended(rlog[2]) /\ rlog[2].text = <<"B">> /\ rlog[2].ttl > 0
    /\ IsRead(rlog[3])
    /\ rlog[3].ret = Str(<<"A", "B">>)

\* the key can be read: get_text, when answered, returns a text
Readable == RedisMemory_get_text(rkey, clock, TRUE) # None

\* C30: a successful append_text, on an absent key or on a key with any time left,
\* makes the key expire 15 minutes later: the key can be read at every time less
\* than 15 minutes after the last successful append_text (unless delete_text
\* removed it since), and cannot be read once 15 minutes have passed without one.
C30_AppendResetsExpiry ==
    /\ written_at >= 0 =>
          /\ Readable <=> clock < written_at + 15
          /\ Readable => rkey.expire_at = written_at + 15
    /\ written_at < 0 => ~Readable
    /\ (rlog # <<>> /\ IsAppended(rlog[Len(rlog)])) => written_at >= 0

\* a key with 5 minutes left was extended; 10 minutes later, past its first expiry,
\* it can still be read
C30_Witness ==
    /\ Len(rlog) = 2
    /\ IsAppended(rlog[1]) /\ rlog[1].ttl = 0
    /\ IsAppended(rlog[2]) /\ rlog[2].ttl = 5
    /\ clock = written_at + 10
    /\ Readable
    /\ rkey.expire_at = clock + 5

\* the call that a step of the adapter has just logged
LastMemoryCall == rlog'[Len(rlog')]

\* what a method returns when it reports a failure: False, or None for get_text
FailureValue(op) == IF op = "get_text" THEN None ELSE FALSE

\* C31: the memory adapter reports absence and store failure as values: get_text
\* on an absent key returns None and delete_text on an absent key returns False;
\* when the store raises, append_text returns False, get_text returns None,
\* delete_text returns False, and the key holds what it held before the call.
C31_AbsenceAndFailureAreValues ==
    [][ Len(rlog') > Len(rlog) =>
          /\ (LastMemoryCall.up /\ LastMemoryCall.ttl = 0 /\ LastMemoryCall.op # "append_text")
                => LastMemoryCall.ret = FailureValue(LastMemoryCall.op)
          /\ ~LastMemoryCall.up =>
                /\ LastMemoryCall.ret = FailureValue(LastMemoryCall.op)
                /\ rkey' = rkey ]_vars

\* "A" was stored; then Redis raised during append_text("B"), which returned
\* False and left "A" in place
C31_Witness ==
    /\ Len(rlog) = 2
    /\ IsAppended(rlog[1]) /\ rlog[1].text = <<"A">>
    /\ rlog[2].op = "append_text" /\ rlog[2].text = <<"B">>
    /\ ~rlog[2].up /\ rlog[2].ret = FALSE
    /\ rkey.val = Str(<<"A">>)

(***************************************************************************)
(* Two requests of one session append to the conversation key at the same  *)
(* time.  append_text is two commands, get and then setex, and the other   *)
(* client may run between them.                                            *)
(***************************************************************************)
StartBlobs == { <<>>, <<"H">> }
AppendedTexts == { <<"A">>, <<"B">> }

\* a client that ran a command interrupted every client that is between its
\* get and its setex
Interrupted(cs, c) ==
    [d \in ClientIds |->
        IF d # c /\ cs[d].pc = "setex" THEN [cs[d] EXCEPT !.overlapped = TRUE]
        ELSE cs[d]]

\* `current_value = self.redis_client.get(self.key)`; the except clause when
\* Redis raises
ClientGet(cl, key, now, up) ==
    IF up THEN [cl EXCEPT !.pc = "setex", !.current_value = GET(key, now)]
    ELSE [cl EXCEPT !.pc = "done", !.success = FALSE]

\* (a faulty variant: the value read is dropped and only the new text is written)
ClientSetexValueDroppingRead(cl) == Str(cl.text)
\* the value written by `setex`: `current_value + text`, or `text` when the
\* value read was None or empty
ClientSetexValue(cl) == append_text(cl.current_value, cl.text)

InitRace ==
    /\ payload \in [community_id : {"c1"}, query : {<<"q1">>},
                    enable_answer_skipping : {FALSE}, chat_id : {"chat1"}]
    /\ apc = "none"
    /\ workflow_id = 0
    /\ collection = <<>>
    /\ audit = <<>>
    /\ storeUp = TRUE
    /\ flips = 0
    /\ redis = None
    /\ memory = TRUE
    /\ flow = NoFlow
    /\ state = AgenticFlowState
    /\ fpc = "idle"
    /\ output = None
    /\ calls = <<>>
    /\ rag = NoRetrieval
    /\ relative = TRUE
    /\ crew_output = None
    /\ final_answer = None
    /\ chat_history = None
    /\ result = Return(None)
    /\ error = NoError
    /\ classifier = NoClassifier
    /\ verdict = NoVerdict
    /\ clock = 0
    /\ rlog = <<>>
    /\ written_at = 0 - 1
    /\ clients = NoClients
    /\ wf = NoWorkflow
    /\ \E h \in StartBlobs :
         rkey = IF h = <<>> THEN AbsentKey ELSE SETEX(0, TimeoutMinutes, Str(h))

RaceFrame ==
    /\ UNCHANGED << classifier, verdict, clock, rlog, written_at, wf >>
    /\ UnitFrame

\* a request calls memory.append_text(chat)
BeginAppend(c) ==
    /\ clients[c].pc = "idle"
    /\ \E text \in AppendedTexts :
         clients' = [clients EXCEPT ![c] = [@ EXCEPT !.pc = "get", !.text = text]]
    /\ UNCHANGED rkey
    /\ RaceFrame

\* the client reads the key
AppendGet(c) ==
    /\ clients[c].pc = "get"
    /\ \E up \in BOOLEAN :
         clients' = [Interrupted(clients, c) EXCEPT
                        ![c] = ClientGet(clients[c], rkey, clock, up)]
    /\ UNCHANGED rkey
    /\ RaceFrame

\* the client writes the key with a new expiry and returns what setex returned,
\* or False when Redis raises
AppendSetex(c) ==
    /\ clients[c].pc = "setex"
    /\ \E up \in BOOLEAN :
         /\ rkey' = IF up THEN SETEX(clock, TimeoutMinutes,
                                     ClientSetexValue(clients[c]))
                    ELSE rkey
         /\ clients' = [Interrupted(clients, c) EXCEPT
                           ![c] = [clients[c] EXCEPT !.pc = "done", !.success = up]]
    /\ RaceFrame

RaceNext ==
    \E c \in ClientIds :
        \/ BeginAppend(c)
        \/ AppendGet(c)
        \/ AppendSetex(c)

RaceSpec == InitRace /\ [][RaceNext]_vars

\* both calls returned True
BothSucceeded == \A c \in ClientIds : clients[c].pc = "done" /\ clients[c].success

\* the calls ran one after the other: neither ran between the other's commands
OneAfterTheOther == \A c \in ClientIds : ~clients[c].overlapped

\* the blobs that hold what was there before and both texts, in either order
MergedBlobs ==
    UNION { { Str(h \o clients[c].text \o clients[d].text) :
                h \in StartBlobs, d \in ClientIds \ {c} } : c \in ClientIds }

\* C32: append_text is a get followed by a setex, not one atomic command: when two
\* calls on one key both return True and ran one after the other, the key holds
\* the earlier blob followed by both texts; when they interleave, a state where
\* both returned True and the text of one is missing is reachable (the witness).
C32_SequentialAppendsKeepBoth ==
    (BothSucceeded /\ OneAfterTheOther) => rkey.val \in MergedBlobs

\* both calls read the key before either wrote it, both returned True, and the
\* key holds "H B": the "A" of the first client is lost
C32_Witness ==
    /\ BothSucceeded
    /\ ~OneAfterTheOther
    /\ clients[1].text = <<"A">> /\ clients[2].text = <<"B">>
    /\ clients[1].current_value = Str(<<"H">>)
    /\ clients[2].current_value = Str(<<"H">>)
    /\ rkey.val = Str(<<"H", "B">>)
    /\ ~Contains(rkey.val.val, clients[1].text)

\* a gating classifier returned a verdict that the cascade takes as "no"
GateRejected ==
    \E i \in DOMAIN calls :
        calls[i].op \in GateOpSet /\ calls[i].result \notin {"True", "raise"}

\* a generation strategy has been called, or a handler that leads to one is next
GenerationPending ==
    fpc \in {"detect_question", "detect_question_lm", "detect_question_rag",
             "detect_question_type", "do_rag_query", "do_history_query"}
GenerationAttempted == \E i \in DOMAIN calls : calls[i].op \in GenerationOps

\* C33: state.state is "stop" only if the gate rejected the query or a terminal
\* answer was produced: in every state with state.state = "stop" a gating
\* classifier returned a negative verdict in this run or last_answer holds the
\* answer, and no generation is pending: the flow is at the router, at the stop
\* handler or done, and no generation strategy runs.
C33_StopOnlyAfterRejectionOrAnswer ==
    state.state = "stop" =>
        /\ GateRejected \/ state.last_answer # None
        /\ ~GenerationPending
        /\ ~GenerationAttempted

\* the third stage of the gate returned a score below the threshold and the flow
\* ended in "stop" with no generation
C33_Witness ==
    /\ state.state = "stop"
    /\ fpc = "done"
    /\ calls # <<>>
    /\ calls[Len(calls)].op = "classify_message_lm"
    /\ calls[Len(calls)].result = "False"
    /\ ~GenerationAttempted

\* C34: retry_count starts at 0 and goes up by one per generation pass: in every
\* state of a run, and so after the run, retry_count is the number of times
\* do_rag_query or do_history_query completed; the gate, the router and the stop
\* handler complete no generation and leave it as it is.
C34_RetryCountCountsPasses == state.retry_count = GenerationPasses

\* the gate let the query through, one generation pass completed, the stop
\* handler ran, and retry_count is 1
C34_Witness ==
    /\ fpc = "done"
    /\ Len(GateCalls) = 3
    /\ GenerationPasses = 1
    /\ state.retry_count = 1

Unstructured(response) ==
    ~(Contains(response, <<"Reasoning:">>) /\ Contains(response, <<"Result:">>))

\* C36: with reasoning enabled, classify_question_lm falls back to searching the
\* response when it does not follow the 'Reasoning: ... Result: ...' structure:
\* for an unstructured response that holds the word 'true' it returns the result
\* True with no reasoning, and does not raise.
C36_UnstructuredResponseFallsBack ==
    ( /\ verdict.op = "classify_question_lm"
      /\ classifier.enable_reasoning
      /\ Unstructured(verdict.response)
      /\ Contains(LowerText(verdict.response), <<"true">>) )
    => /\ verdict.ret.kind = "return"
       /\ verdict.ret.val.result = "True"
       /\ verdict.ret.val.reasoning = <<>>

\* the key was written and its time has run out
Expired(key, now) == key.val # None /\ now >= key.expire_at

\* C37: an append_text on a key whose blob has expired, while Redis answers,
\* behaves like an append to an absent key: it returns True, the blob afterwards
\* is the new text alone, and the key expires 15 minutes after this call.
C37_AppendToExpiredKey ==
    [][ ( /\ Len(rlog') > Len(rlog)
          /\ LastMemoryCall.op = "append_text"
          /\ LastMemoryCall.up
          /\ Expired(rkey, clock) ) =>
            /\ LastMemoryCall.ret = TRUE
            /\ rkey'.val = Str(LastMemoryCall.text)
            /\ rkey'.expire_at = clock + TimeoutMinutes
            /\ rkey' = RedisMemory_append_text(AbsentKey, clock, TRUE,
                                               LastMemoryCall.text).key
      ]_vars

\* "A" was stored at time 0 and expired; "B" was appended at time 20: the key
\* holds "B" alone and expires at time 35
C37_Witness ==
    /\ Len(rlog) = 2
    /\ IsAppended(rlog[1]) /\ rlog[1].text = <<"A">>
    /\ IsAppended(rlog[2]) /\ rlog[2].text = <<"B">> /\ rlog[2].ttl = 0
    /\ clock = 20
    /\ written_at = 20
    /\ rkey = [val |-> Str(<<"B">>), expire_at |-> 35]

\* the activity is about to return final_answer as an answer text
AnswerStringReturned == IsStr(final_answer) /\ final_answer # Str(<<"NONE">>)

\* C38: the activity changes the memory blob at most once per invocation, at its
\* memory update, and only when a session id was supplied and an answer string is
\* being returned: the blob then gains the exchange "User: query Agent: answer";
\* when the gate stopped the query, or the final answer is absent or 'NONE', the
\* blob is left as it was.
C38_MemoryAppendedOnlyWithAnswer ==
    [][ redis' # redis =>
            /\ apc = "memory_update" /\ apc' = "memory_step"
            /\ payload.chat_id # ""
            /\ AnswerStringReturned
            /\ redis' = append_text(redis, ChatEntry(payload.query, final_answer))
      ]_vars

\* the activity's last call on the recorder
FinalCall == audit[Len(audit)]

WorkflowPayloads ==
    [community_id : {"c1"}, query : {<<"hello">>},
     enable_answer_skipping : {FALSE}, chat_id : ChatIds]

InitWorkflow ==
    /\ payload \in WorkflowPayloads
    /\ apc = "create"
    /\ workflow_id = 0
    /\ collection = <<>>
    /\ audit = <<>>
    /\ storeUp \in BOOLEAN
    /\ flips = 0
    /\ redis = None
    /\ memory = FALSE
    /\ flow = NoFlow
    /\ state = AgenticFlowState
    /\ fpc = "idle"
    /\ output = None
    /\ calls = <<>>
    /\ rag = NoRetrieval
    /\ relative = TRUE
    /\ crew_output = None
    /\ final_answer = None
    /\ chat_history = None
    /\ result = Return(None)
    /\ error = NoError
    /\ classifier = NoClassifier
    /\ verdict = NoVerdict
    /\ rkey = AbsentKey
    /\ clock = 0
    /\ rlog = <<>>
    /\ written_at = 0 - 1
    /\ clients = NoClients
    /\ wf = [attempts |-> 1, status |-> "running"]

\* the handlers of the flow that run for such a request: detect_question returns
\* at once, and with no conversation stored the retrieval strategy is selected
UngatedFlowNext ==
    \/ RemoteCallFails
    \/ detect_question_bypass
    \/ route_start
    \/ detect_stop_state
    \/ detect_question_type
    \/ do_rag_query

\* a step of the attempt in progress
AttemptRuns ==
    /\ wf.status = "running"
    /\ ActivityNext \/ UngatedFlowNext

\* (a faulty variant: the workflow retries without a limit of its own)
MayRetryUnbounded(attempts) == TRUE
\* `retry_policy=RetryPolicy(maximum_attempts=3)`
MayRetry(attempts) == attempts < MaximumAttempts

\* the attempt raised and the policy allows another one: the activity function is
\* called again, with a new MongoPersistence and workflow_id = None
RetryActivity ==
    /\ wf.status = "running"
    /\ apc = "raised"
    /\ MayRetry(wf.attempts)
    /\ wf.attempts < MaxAttemptsRun
    /\ wf' = [wf EXCEPT !.attempts = @ + 1]
    /\ apc' = "create"
    /\ workflow_id' = 0
    /\ memory' = FALSE
    /\ flow' = NoFlow
    /\ state' = AgenticFlowState
    /\ fpc' = "idle"
    /\ output' = None
    /\ calls' = <<>>
    /\ rag' = NoRetrieval
    /\ relative' = TRUE
    /\ crew_output' = None
    /\ final_answer' = None
    /\ chat_history' = None
    /\ result' = Return(None)
    /\ error' = NoError
    /\ UNCHANGED << payload, collection, audit, redis >>
    /\ UNCHANGED << classifier, verdict, rkey, clock, rlog, written_at, clients >>
    /\ UNCHANGED envVars

\* what is left unchanged when the workflow ends
WorkflowEndFrame ==
    /\ UNCHANGED << payload, collection, audit, redis, calls, error >>
    /\ UNCHANGED << classifier, verdict, rkey, clock, rlog, written_at, clients >>
    /\ UNCHANGED envVars
    /\ UNCHANGED activityVars
    /\ UNCHANGED flowVars

\* `return updated_payload`: the attempt returned
WorkflowReturns ==
    /\ wf.status = "running"
    /\ apc = "returned"
    /\ wf' = [wf EXCEPT !.status = "completed"]
    /\ WorkflowEndFrame

\* the last attempt raised: execute_activity raises in the workflow
WorkflowFails ==
    /\ wf.status = "running"
    /\ apc = "raised"
    /\ ~MayRetry(wf.attempts)
    /\ wf' = [wf EXCEPT !.status = "failed"]
    /\ WorkflowEndFrame

WorkflowNext ==
    \/ AttemptRuns
    \/ StoreFlip
    \/ RetryActivity
    \/ WorkflowReturns
    \/ WorkflowFails

WorkflowSpec == InitWorkflow /\ [][WorkflowNext]_vars

\* the store applied a write with status 'failed' to the k-th record
FailedWriteApplied(k) ==
    \E i \in DOMAIN audit :
        /\ audit[i].op \in {"update_workflow_step", "update_response"}
        /\ audit[i].id = ObjectIdStr(k)
        /\ audit[i].status = "failed"
        /\ audit[i].ret = TRUE

\* what holds of the attempts and of their records after every step: at most 3
\* attempts; at most one record per attempt; a step writes to no record but the
\* one the attempt in progress created, which is the newest; the workflow fails
\* only when its third attempt raised
AttemptsOwnTheirRecords ==
    /\ wf'.attempts <= MaximumAttempts
    /\ Len(collection') <= wf'.attempts
    /\ Len(collection') >= Len(collection)
    /\ \A k \in DOMAIN collection :
         collection'[k] # collection[k] =>
             /\ k = workflow_id
             /\ k = Len(collection)
             /\ collection'[k].createdAt = collection[k].createdAt
    /\ wf'.status = "failed" =>
         /\ wf'.attempts = MaximumAttempts
         /\ apc' = "raised"
         /\ result'.kind = "raise"
         /\ Len(collection') <= MaximumAttempts

\* C40 as stated: the hosting workflow executes the activity at most 3 times for
\* one request; every attempt writes to its own audit record only, so no record
\* receives steps or a status from two attempts; a request whose every attempt
\* fails leaves at most 3 records, each with status 'failed', and the workflow
\* then fails.
C40_FailedAttemptsLeaveFailedRecords ==
    [][ /\ AttemptsOwnTheirRecords
        /\ wf'.status = "failed" =>
             \A k \in DOMAIN collection' : collection'[k].status = "failed"
      ]_vars

\* C40 amended: as stated, except that a record of a failed attempt has status
\* 'failed' when the store applied one of the attempt's two error writes and is
\* still 'running' when it applied neither.
C40_FailedAttemptsLeaveOwnRecords ==
    [][ /\ AttemptsOwnTheirRecords
        /\ wf'.status = "failed" =>
             \A k \in DOMAIN collection' :
                 collection'[k].status =
                     IF FailedWriteApplied(k)' THEN "failed" ELSE "running"
      ]_vars

\* three attempts raised with the store answering: the workflow failed and left
\* three records, each 'failed', each with the steps of one attempt
C40_Witness ==
    /\ wf = [attempts |-> 3, status |-> "failed"]
    /\ Len(collection) = 3
    /\ \A k \in DOMAIN collection :
         /\ collection[k].status = "failed"
         /\ collection[k].currentStep = "error_occurred"
         /\ collection[k].steps[1].stepName = "initialization"
    /\ collection[1].createdAt < collection[2].createdAt
    /\ collection[2].createdAt < collection[3].createdAt

====
